---- MODULE Spec2Model ----
(***************************************************************************)
(* Model of the orchestration engine MarketDataBrain                       *)
(* (src/src/marketdata_providers/brain.py): result cache, rate-limit       *)
(* health tracker, concurrent fan-out to the provider adapters and the     *)
(* aggregation of their results.                                           *)
(*                                                                         *)
(* Python strings are sequences of one-character strings, so that          *)
(* str.lower(), the substring test and the cache-key formatting are        *)
(* computed as the code computes them.  Python None is the record None;    *)
(* numbers and strings stored in fields that may also hold None are        *)
(* wrapped by Num and Str.  Time is counted in whole seconds.  Floats are   *)
(* IEEE 754 doubles, rounded as the hardware rounds them.                  *)
(***************************************************************************)
EXTENDS Integers, Sequences, FiniteSets, TLC

\* ------------------------------------------------------------------ bounds
MaxCalls == 1      \* public operations that may be in flight together
MaxFetches == 2    \* public operations issued in one run
MaxClock == 1      \* last clock reading of the orchestrator runs
MaxSkew == 1       \* clock readings taken around the end of the cooldown

\* --------------------------------------------------------------- constants
CooldownSeconds == 3600

\* ------------------------------------------------------------------ values
None == [tag |-> "None"]
Num(n) == [tag |-> "num", v |-> n]
Str(s) == [tag |-> "str", chars |-> s]

IsNone(x) == x.tag = "None"

\* A datetime: its instant in seconds, and whether it carries a tzinfo
\* (polygon builds its timestamps with tz=timezone.utc, alpha_vantage with a
\* bare datetime.now()).
DateTime(n, aware) == [tag |-> "datetime", v |-> n, aware |-> aware]

\* Whether a < b, a > b can be evaluated for two timestamps: ordering None,
\* or an aware datetime against a naive one, raises TypeError.
Comparable(a, b) ==
    /\ a.tag = "datetime" /\ b.tag = "datetime"
    /\ a.aware = b.aware

\* A datetime.date
Date(y, m, d) == [tag |-> "date", y |-> y, m |-> m, d |-> d]

\* a < b for two dates
DateLess(a, b) ==
    \/ a.y < b.y
    \/ a.y = b.y /\ a.m < b.m
    \/ a.y = b.y /\ a.m = b.m /\ a.d < b.d

\* A Python list
List(items) == [tag |-> "list", items |-> items]

\* Python truthiness of an optional number or string.
Truthy(x) ==
    CASE x.tag = "None" -> FALSE
      [] x.tag = "num" -> x.v # 0
      [] x.tag = "str" -> Len(x.chars) > 0
      [] x.tag = "list" -> Len(x.items) > 0
      [] OTHER -> TRUE



\* ------------------------------------------------------------------ floats
\* A Python float (IEEE 754 binary64) that is zero or positive: FloatZero,
\* or [tag |-> "float", exp |-> e, sig |-> <<a, b, c>>] of value
\* (a * 2^36 + b * 2^18 + c) * 2^(e - 52), the 53-bit significand being cut
\* into limbs of 17, 18 and 18 bits with a >= 2^16.  Every operation rounds
\* to nearest, ties to even.  The operands stay far below the range where
\* the exponent would overflow.
PowersOfTwo ==
    <<1, 2, 4, 8, 16, 32, 64, 128, 256, 512, 1024, 2048, 4096, 8192, 16384,
      32768, 65536, 131072, 262144, 524288, 1048576, 2097152, 4194304,
      8388608, 16777216, 33554432, 67108864>>

Pow2(n) == PowersOfTwo[n + 1]

LimbBase == Pow2(18)

FloatZero == [tag |-> "float", exp |-> 0, sig |-> <<0, 0, 0>>]

\* The number of bits of a positive integer below 2^26.
BitLength(n) == CHOOSE l \in 1..26 : Pow2(l - 1) <= n /\ n < Pow2(l)

\* The float nearest to (a, b, c).(round bit)(sticky) * 2^(e - 52).
RoundNearestEven(a, b, c, e, round_bit, sticky) ==
    LET up == round_bit = 1 /\ (sticky \/ c % 2 = 1)
        c1 == IF up THEN c + 1 ELSE c
        b1 == IF c1 = LimbBase THEN b + 1 ELSE b
        a1 == IF b1 = LimbBase THEN a + 1 ELSE a
    IN IF a1 = Pow2(17)
       THEN [tag |-> "float", exp |-> e + 1, sig |-> <<Pow2(16), 0, 0>>]
       ELSE [tag |-> "float", exp |-> e, sig |-> <<a1, b1 % LimbBase, c1 % LimbBase>>]

\* x / y for integers 0 <= x and 0 < y, both below 2^7 (Python's true
\* division of ints, which is correctly rounded): long division in limbs.
FloatDiv(x, y) ==
    IF x = 0 THEN FloatZero
    ELSE LET e == IF x >= y THEN BitLength(x \div y) - 1
                  ELSE 0 - (CHOOSE k \in 1..7 : x * Pow2(k) >= y /\ x * Pow2(k - 1) < y)
             num == IF e >= 0 THEN x ELSE x * Pow2(0 - e)
             den == IF e >= 0 THEN y * Pow2(e) ELSE y
             a == (num * Pow2(16)) \div den
             ra == (num * Pow2(16)) % den
             b == (ra * LimbBase) \div den
             rb == (ra * LimbBase) % den
             c == (rb * LimbBase) \div den
             rc == (rb * LimbBase) % den
         IN RoundNearestEven(a, b, c, e, IF 2 * rc >= den THEN 1 ELSE 0,
                             rc # 0 /\ 2 * rc # den)

\* x * n for a float x and an integer 0 <= n < 2^7 (a float times an int
\* that float() represents exactly)
FloatTimes(x, n) ==
    IF x = FloatZero \/ n = 0 THEN FloatZero
    ELSE LET low == x.sig[3] * n
             mid == x.sig[2] * n + (low \div LimbBase)
             high == x.sig[1] * n + (mid \div LimbBase)
             lb == mid % LimbBase
             lc == low % LimbBase
             k == BitLength(high) - 17          \* bits to drop at the low end
             a == high \div Pow2(k)
             b == ((high % Pow2(k)) * LimbBase + lb) \div Pow2(k)
             c == ((lb % Pow2(k)) * LimbBase + lc) \div Pow2(k)
             dropped == lc % Pow2(k)
             round_bit == IF k = 0 THEN 0 ELSE dropped \div Pow2(k - 1)
             sticky == k > 0 /\ dropped % Pow2(k - 1) # 0
         IN RoundNearestEven(a, b, c, x.exp + k, round_bit, sticky)

\* float(n) for an integer 0 <= n < 2^17
FloatOfInt(n) ==
    IF n = 0 THEN FloatZero
    ELSE [tag |-> "float", exp |-> BitLength(n) - 1,
          sig |-> <<n * Pow2(17 - BitLength(n)), 0, 0>>]

\* ----------------------------------------------------------------- strings
DigitChars == <<"0","1","2","3","4","5","6","7","8","9">>

\* str(n) for an integer n >= 0
RECURSIVE Digits(_)
Digits(n) ==
    IF n < 10 THEN <<DigitChars[n + 1]>>
    ELSE Digits(n \div 10) \o <<DigitChars[(n % 10) + 1]>>

\* s, filled with zeros on the left up to width w
RECURSIVE ZeroPad(_, _)
ZeroPad(s, w) == IF Len(s) >= w THEN s ELSE ZeroPad(<<"0">> \o s, w)

\* date.strftime('%Y-%m-%d'), which is also str(date)
IsoFormat(d) ==
    ZeroPad(Digits(d.y), 4) \o <<"-">> \o ZeroPad(Digits(d.m), 2)
        \o <<"-">> \o ZeroPad(Digits(d.d), 2)

UpperChars == <<"A","B","C","D","E","F","G","H","I","J","K","L","M","N","O","P","Q","R","S","T","U","V","W","X","Y","Z">>
LowerChars == <<"a","b","c","d","e","f","g","h","i","j","k","l","m","n","o","p","q","r","s","t","u","v","w","x","y","z">>

\* The characters in use, in code-point order.
CharOrder == <<" ","'","-",".","0","1","2","3","4","5","6","7","8","9",":","=","A","B","C","D","E","F","G","H","I","J","K","L","M","N","O","P","Q","R","S","T","U","V","W","X","Y","Z","_","a","b","c","d","e","f","g","h","i","j","k","l","m","n","o","p","q","r","s","t","u","v","w","x","y","z">>

Ord(ch) == CHOOSE i \in 1..Len(CharOrder) : CharOrder[i] = ch

LowerChar(ch) ==
    IF \E i \in 1..Len(UpperChars) : UpperChars[i] = ch
    THEN LowerChars[CHOOSE i \in 1..Len(UpperChars) : UpperChars[i] = ch]
    ELSE ch

\* str.lower()
Lower(s) == [i \in 1..Len(s) |-> LowerChar(s[i])]

\* `needle in hay`
Contains(hay, needle) ==
    \E i \in 0..(Len(hay) - Len(needle)) :
        \A j \in 1..Len(needle) : hay[i + j] = needle[j]

\* Python's `<` on str: lexicographic by code point.
RECURSIVE StrLess(_, _)
StrLess(a, b) ==
    IF Len(b) = 0 THEN FALSE
    ELSE IF Len(a) = 0 THEN TRUE
    ELSE IF a[1] = b[1] THEN StrLess(Tail(a), Tail(b))
    ELSE Ord(a[1]) < Ord(b[1])

\* sep.join(parts)
RECURSIVE Join(_, _)
Join(sep, parts) ==
    IF Len(parts) = 0 THEN <<>>
    ELSE IF Len(parts) = 1 THEN parts[1]
    ELSE parts[1] \o sep \o Join(sep, Tail(parts))

\* ------------------------------------------------------- string constants
NoDataReturned == <<"N","o"," ","d","a","t","a"," ","r","e","t","u","r","n","e","d">>
NoProvidersAvailable == <<"N","o"," ","p","r","o","v","i","d","e","r","s"," ","a","v","a","i","l","a","b","l","e">>
AllProvidersFailed == <<"A","l","l"," ","p","r","o","v","i","d","e","r","s"," ","f","a","i","l","e","d"," ","t","o"," ","r","e","t","u","r","n"," ","d","a","t","a">>

\* The rate-limit indicators searched in the lower-cased error text.
RateLimitIndicators ==
    { <<"r","a","t","e"," ","l","i","m","i","t">>,
      <<"t","o","o"," ","m","a","n","y"," ","r","e","q","u","e","s","t","s">>,
      <<"4","2","9">>,
      <<"q","u","o","t","a"," ","e","x","c","e","e","d","e","d">>,
      <<"a","p","i"," ","k","e","y"," ","l","i","m","i","t">>,
      <<"d","a","i","l","y"," ","l","i","m","i","t"," ","e","x","c","e","e","d","e","d">>,
      <<"2","5"," ","r","e","q","u","e","s","t","s"," ","p","e","r"," ","d","a","y">> }

Range(seq) == {seq[i] : i \in 1..Len(seq)}

\* ---------------------------------------------------------------- registry
AlphaVantageKey == <<"a","l","p","h","a","_","v","a","n","t","a","g","e">>
PolygonKey == <<"p","o","l","y","g","o","n">>
YahooFinanceKey == <<"y","a","h","o","o","_","f","i","n","a","n","c","e">>
FinnhubKey == <<"f","i","n","n","h","u","b">>

\* Keys of provider_classes whose adapter is modelled.
ProviderClasses == {AlphaVantageKey, PolygonKey}

\* The name each adapter passes to MarketDataProvider.__init__.
ProviderName(k) ==
    CASE k = AlphaVantageKey -> <<"A","l","p","h","a","V","a","n","t","a","g","e">>
      [] k = FinnhubKey -> <<"F","i","n","n","h","u","b">>
      [] OTHER -> <<"P","o","l","y","g","o","n">>

\* config.get_enabled_providers(): identifiers in priority order (finnhub,
\* polygon and yahoo_finance are HIGH, alpha_vantage is LOW).  It also lists
\* yahoo_finance, for which the Brain builds no adapter.
EnabledProviders == <<FinnhubKey, PolygonKey, YahooFinanceKey, AlphaVantageKey>>

\* ---------------------------------------------------------------- payloads
QuoteFillFields == <<"market_cap", "pe_ratio", "week_52_high", "week_52_low", "avg_volume", "day_high", "day_low">>

\* A StockQuote with the fields the Brain reads.
MkQuote(symbol, price, volume, ts, market_cap) ==
    [tag |-> "StockQuote", symbol |-> symbol, price |-> price, volume |-> volume,
     timestamp |-> ts, market_cap |-> market_cap, pe_ratio |-> None,
     week_52_high |-> None, week_52_low |-> None, avg_volume |-> None,
     day_high |-> None, day_low |-> None]

\* A HistoricalPrice with the fields the Brain reads; provider is the name
\* the adapter stamps on its records.
MkHistoricalPrice(date, adjusted_close, provider) ==
    [tag |-> "HistoricalPrice", date |-> date, adjusted_close |-> adjusted_close,
     dividend |-> None, split |-> None, provider |-> provider]

\* An OptionQuote with the fields the Brain reads: alpha_vantage fills
\* strike and expiration, polygon strike_price and expiration_date.
MkOptionQuote(strike, strike_price, expiration, expiration_date, option_type, bid) ==
    [tag |-> "OptionQuote", strike |-> strike, strike_price |-> strike_price,
     expiration |-> expiration, expiration_date |-> expiration_date,
     option_type |-> option_type, bid |-> bid]

MkEconomicData(indicator, value) ==
    [tag |-> "EconomicData", indicator |-> indicator, value |-> value]

\* ---------------------------------------------------------------- requests
QuoteType == <<"q","u","o","t","e">>
EconomicDataType == <<"e","c","o","n","o","m","i","c","_","d","a","t","a">>
HistoricalType == <<"h","i","s","t","o","r","i","c","a","l">>
IntradayType == <<"i","n","t","r","a","d","a","y">>
OptionsChainType == <<"o","p","t","i","o","n","s","_","c","h","a","i","n">>
SymbolArg == <<"s","y","m","b","o","l">>
IndicatorArg == <<"i","n","d","i","c","a","t","o","r">>

\* get_quote(symbol)
GetQuote(symbol) ==
    [method_name |-> <<"g","e","t","_","q","u","o","t","e">>,
     data_type |-> QuoteType,
     kwargs |-> (SymbolArg :> Str(symbol))]

\* get_economic_data(indicator)
GetEconomicData(indicator) ==
    [method_name |-> <<"g","e","t","_","e","c","o","n","o","m","i","c","_","d","a","t","a">>,
     data_type |-> EconomicDataType,
     kwargs |-> (IndicatorArg :> Str(indicator))]

AAPL == <<"A","A","P","L">>
GDP == <<"G","D","P">>

StartDateArg == <<"s","t","a","r","t","_","d","a","t","e">>
EndDateArg == <<"e","n","d","_","d","a","t","e">>
IntervalArg == <<"i","n","t","e","r","v","a","l">>
ExpirationArg == <<"e","x","p","i","r","a","t","i","o","n">>
LimitArg == <<"l","i","m","i","t">>

\* get_historical(symbol, start_date, end_date, interval)
NewsType == <<"n","e","w","s">>
PublishedAfterArg == <<"p","u","b","l","i","s","h","e","d","_","a","f","t","e","r">>
PublishedBeforeArg == <<"p","u","b","l","i","s","h","e","d","_","b","e","f","o","r","e">>

DividendsType == <<"d","i","v","i","d","e","n","d","s">>

\* MarketDataBrain.get_dividends(symbol)
GetDividends(symbol) ==
    [method_name |-> <<"g","e","t","_","d","i","v","i","d","e","n","d","s">>,
     data_type |-> DividendsType,
     kwargs |-> SymbolArg :> Str(symbol)]

\* MarketDataBrain.get_news(symbol, limit, **extra)
GetNews(symbol, limit, extra) ==
    [method_name |-> <<"g","e","t","_","n","e","w","s">>,
     data_type |-> NewsType,
     kwargs |-> (SymbolArg :> symbol) @@ (LimitArg :> limit) @@ extra]

GetHistorical(symbol, start_date, end_date, interval) ==
    [method_name |-> <<"g","e","t","_","h","i","s","t","o","r","i","c","a","l">>,
     data_type |-> HistoricalType,
     kwargs |-> (SymbolArg :> Str(symbol)) @@ (StartDateArg :> start_date)
                @@ (EndDateArg :> end_date) @@ (IntervalArg :> Str(interval))]

\* get_intraday(symbol, interval)
GetIntraday(symbol, interval) ==
    [method_name |-> <<"g","e","t","_","i","n","t","r","a","d","a","y">>,
     data_type |-> IntradayType,
     kwargs |-> (SymbolArg :> Str(symbol)) @@ (IntervalArg :> Str(interval))]

\* get_options_chain(symbol, expiration)
GetOptionsChain(symbol, expiration) ==
    [method_name |-> <<"g","e","t","_","o","p","t","i","o","n","s","_","c","h","a","i","n">>,
     data_type |-> OptionsChainType,
     kwargs |-> (SymbolArg :> Str(symbol)) @@ (ExpirationArg :> expiration)]

\* The public operations the callers issue.
Requests == {GetQuote(AAPL), GetEconomicData(GDP)}

\* What an adapter may hand back for a request: a payload, None, an
\* exception whose message names a rate limit, or (the adapter lacks the
\* method) the AttributeError raised by getattr, whose message names none.
ErrorTexts ==
    { <<"R","a","t","e"," ","L","i","m","i","t"," ","H","i","t">> }

NoAttributeText == <<"n","o"," ","a","t","t","r","i","b","u","t","e">>

\* The payload the adapter of registry key k has for request r: the two
\* providers disagree on every field the aggregation looks at.
Payloads(r, k) ==
    IF r.data_type = QuoteType
    THEN IF k = PolygonKey
         THEN { MkQuote(r.kwargs[SymbolArg].chars, Num(100), Num(1000), DateTime(1, TRUE), Num(5)) }
         ELSE { MkQuote(r.kwargs[SymbolArg].chars, Num(104), Num(900), DateTime(2, FALSE), None) }
    ELSE IF k = PolygonKey
         THEN { MkEconomicData(r.kwargs[IndicatorArg].chars, Num(1)) }
         ELSE { MkEconomicData(r.kwargs[IndicatorArg].chars, Num(2)) }

AdapterOutcomes(r, k) ==
    { [kind |-> "data", data |-> d, msg |-> <<>>] : d \in Payloads(r, k) }
    \cup { [kind |-> "none", data |-> None, msg |-> <<>>] }
    \cup { [kind |-> "raise", data |-> None, msg |-> m] : m \in ErrorTexts }
    \cup { [kind |-> "nomethod", data |-> None, msg |-> NoAttributeText] }

\* ------------------------------------------------- payloads to be merged
\* The adapters the merge runs are built with.
MergeProviders == {FinnhubKey, PolygonKey, AlphaVantageKey}

January2 == Date(2024, 1, 2)
January3 == Date(2024, 1, 3)
March15 == Date(2024, 3, 15)

Daily == <<"1","d">>
FiveMinutes == <<"5","m","i","n">>

\* The operations whose results are merged field by field or record by
\* record.
MergeRequests ==
    { GetQuote(AAPL),
      GetHistorical(AAPL, January2, January3, Daily),
      GetIntraday(AAPL, FiveMinutes),
      GetOptionsChain(AAPL, None) }

\* Price and volume as one provider may report them; an adapter that has
\* no figure for a field passes 0 or None.
Readings ==
    { [price |-> Num(100), volume |-> Num(900)],
      [price |-> Num(102), volume |-> Num(1000)],
      [price |-> Num(1000), volume |-> Num(50)],
      [price |-> Num(104), volume |-> None],
      [price |-> Num(0), volume |-> Num(1000)] }

\* Quote timestamps: naive ones and one that carries a time zone.
Stamps == {DateTime(1, FALSE), DateTime(2, FALSE), DateTime(2, TRUE)}

MergeQuotes(k) ==
    { MkQuote(AAPL, rd.price, rd.volume, ts, IF k = PolygonKey THEN Num(5) ELSE None) :
          rd \in Readings, ts \in Stamps }

\* The series one provider may return: up to two records, newest first,
\* with or without an adjusted close (0 where the adapter found none), or
\* two records of one day.
MergeSeries(k) ==
    LET H(d, adj) == MkHistoricalPrice(d, adj, ProviderName(k))
    IN { <<>>, <<H(January2, None), H(January2, Num(7))>> }
       \cup { <<H(d, adj)>> : d \in {January2, January3}, adj \in {None, Num(0), Num(7)} }
       \cup { <<H(January3, a), H(January2, b)>> : a \in {None, Num(7)}, b \in {None, Num(7)} }

CallType == <<"C","A","L","L">>
PutType == <<"P","U","T">>

\* The chains one provider may return.  polygon fills strike_price and
\* expiration_date, the others strike and expiration; alpha_vantage passes
\* the type as its API spells it, in lower case.  The bids tell the
\* providers' contracts apart.
MergeChains(k) ==
    LET bid == CASE k = FinnhubKey -> 1 [] k = PolygonKey -> 2 [] OTHER -> 3
        type == IF k = AlphaVantageKey THEN Lower(CallType) ELSE CallType
        O(strike, option_type, b) ==
            IF k = PolygonKey
            THEN MkOptionQuote(None, Num(strike), None, March15, Str(option_type), Num(b))
            ELSE MkOptionQuote(Num(strike), None, March15, None, Str(option_type), Num(b))
    IN { <<>>,
         <<O(150, CallType, bid)>>,
         <<O(150, type, bid), O(155, CallType, bid)>>,
         <<O(150, PutType, bid), O(150, CallType, bid)>>,
         <<O(150, CallType, bid), O(150, CallType, bid + 10)>> }

MergePayloads(r, k) ==
    CASE r.data_type = QuoteType -> MergeQuotes(k)
      [] r.data_type = OptionsChainType -> { List(c) : c \in MergeChains(k) }
      [] OTHER -> { List(h) : h \in MergeSeries(k) }

\* What an adapter hands back in the merge runs: a payload or None.
MergeOutcomes(r, k) ==
    { [kind |-> "data", data |-> d, msg |-> <<>>] : d \in MergePayloads(r, k) }
    \cup { [kind |-> "none", data |-> None, msg |-> <<>>] }

\* ------------------------------------------------------------------- state
VARIABLES
    now,                     \* datetime.now(), in seconds
    enable_caching,          \* config.enable_caching
    cache_ttl,               \* self.cache_ttl
    providers,               \* keys of self.providers
    rate_limited_providers,  \* self.rate_limited_providers: name -> instant
    cache,                   \* self.cache: cache key -> AggregatedResult
    pc,                      \* per caller: "idle", "waiting", "done"
    request,                 \* per call: the request being served
    available,               \* per call: available_providers
    pending,                 \* per call: providers whose task has not settled
    tasks,                   \* per call: provider key -> settled task result
    result,                  \* per call: the AggregatedResult returned
    checked,                 \* the last _is_provider_rate_limited call: its
                             \* argument and value, whether a record existed and
                             \* how old it was, whether one is left afterwards
    hist                     \* what is remembered of each call for the
                             \* properties: whether the cache served it (hit),
                             \* whether it followed a return for the same request
                             \* within the TTL (fresh, prev), whether it found an
                             \* entry older than the TTL (stale), the providers
                             \* flagged when it started, how each adapter call
                             \* ended (outcome), how often each adapter was
                             \* invoked; the last return (last) and the number of
                             \* calls issued (fetches)

vars == <<now, enable_caching, cache_ttl, providers, rate_limited_providers,
          cache, pc, request, available, pending, tasks, result, checked, hist>>

Calls == 1..MaxCalls

\* Clock readings of the orchestrator runs: around the cache TTL.
TimePoints == 0..MaxClock

\* Clock readings of the health-tracker runs: where records are written and
\* around the end of their cooldown.
CooldownPoints == (0..MaxSkew) \cup (CooldownSeconds..(CooldownSeconds + MaxSkew + 1))

\* config.enable_caching and config.cache_ttl_seconds: with a TTL of 0 an
\* entry is stale at once, with 1 it is fresh within the second it was
\* written.
CacheConfigs ==
    { [enable_caching |-> FALSE, cache_ttl_seconds |-> 1],
      [enable_caching |-> TRUE, cache_ttl_seconds |-> 0],
      [enable_caching |-> TRUE, cache_ttl_seconds |-> 1] }

\* Names under which health records are written or looked up directly.
HealthNames == {AlphaVantageKey, Lower(ProviderName(PolygonKey))}

\* ------------------------------------------------------ result containers
\* ProviderResult.__init__.  Its timestamp field, which nothing reads, is
\* left out.
ProviderResult(data, provider, success, error) ==
    [tag |-> "ProviderResult", data |-> data, provider |-> provider,
     success |-> success, error |-> error]

\* (successful / total) * 100 for the counts a registry of the enabled
\* providers allows
Percentages ==
    [total \in 1..Len(EnabledProviders) |->
        [successful \in 0..total |-> FloatTimes(FloatDiv(successful, total), 100)]]

\* _calculate_coverage with every result counted as successful
CalculateCoverageAllCounted(provider_results) ==
    LET total == Cardinality(DOMAIN provider_results)
    IN IF total = 0 THEN FloatZero ELSE Percentages[total][total]

\* AggregatedResult._calculate_coverage: the float (successful / total) * 100
CalculateCoverage(provider_results) ==
    LET total == Cardinality(DOMAIN provider_results)
        successful == Cardinality({k \in DOMAIN provider_results :
                          provider_results[k].success /\ ~IsNone(provider_results[k].data)})
    IN IF total = 0 THEN FloatZero ELSE Percentages[total][successful]

\* AggregatedResult.__init__ called without its success argument, which
\* then takes its default
AggregatedResultDefaultSuccess(data, providers_used, success, error, provider_results, t) ==
    [data |-> data, providers_used |-> providers_used, success |-> TRUE,
     error |-> error, provider_results |-> provider_results, timestamp |-> t,
     coverage_percentage |-> CalculateCoverage(provider_results)]

\* AggregatedResult.__init__ at instant t
AggregatedResult(data, providers_used, success, error, provider_results, t) ==
    [data |-> data, providers_used |-> providers_used, success |-> success,
     error |-> error, provider_results |-> provider_results, timestamp |-> t,
     coverage_percentage |-> CalculateCoverage(provider_results)]

NoResults == [k \in {} |-> None]

\* ------------------------------------------------------------------- cache
\* str(v) as formatted by the f-string
FormatValue(v) ==
    CASE v.tag = "None" -> <<"N","o","n","e">>
      [] v.tag = "num" -> Digits(v.v)
      [] v.tag = "date" -> IsoFormat(v)
      [] OTHER -> v.chars

\* sorted(kwargs.items()): the argument names in ascending order
RECURSIVE SortedNames(_)
SortedNames(S) ==
    IF S = {} THEN <<>>
    ELSE LET m == CHOOSE x \in S : \A y \in S \ {x} : StrLess(x, y)
         IN <<m>> \o SortedNames(S \ {m})

\* MarketDataBrain._get_cache_key
GetCacheKey(data_type, kwargs) ==
    LET names == SortedNames(DOMAIN kwargs)
        parts == [i \in 1..Len(names) |-> names[i] \o <<"=">> \o FormatValue(kwargs[names[i]])]
    IN data_type \o <<"_">> \o Join(<<"_">>, parts)

\* _is_cache_valid with the comparison turned round
IsCacheValidInverted(res) ==
    IF ~enable_caching THEN FALSE
    ELSE now - res.timestamp > cache_ttl

\* _is_cache_valid without the age test
IsCacheValidNoTtl(res) == enable_caching

\* MarketDataBrain._is_cache_valid
IsCacheValid(res) ==
    IF ~enable_caching THEN FALSE
    ELSE now - res.timestamp < cache_ttl

\* ---------------------------------------------------------- health tracker
\* _is_provider_rate_limited without the del
IsProviderRateLimitedMapKeep(rl, name, t) == rl

\* The side effect of MarketDataBrain._is_provider_rate_limited on the map.
IsProviderRateLimitedMap(rl, name, t) ==
    IF name \in DOMAIN rl /\ t - rl[name] > CooldownSeconds
    THEN [n \in DOMAIN rl \ {name} |-> rl[n]]
    ELSE rl

\* _is_provider_rate_limited with >= for >
IsProviderRateLimitedAtBoundary(rl, name, t) ==
    IF name \in DOMAIN rl
    THEN IF t - rl[name] >= CooldownSeconds THEN FALSE ELSE TRUE
    ELSE FALSE

\* The value MarketDataBrain._is_provider_rate_limited returns.
IsProviderRateLimited(rl, name, t) ==
    IF name \in DOMAIN rl
    THEN IF t - rl[name] > CooldownSeconds THEN FALSE ELSE TRUE
    ELSE FALSE

\* MarketDataBrain._mark_provider_rate_limited
MarkProviderRateLimited(rl, name, t) ==
    [n \in DOMAIN rl \cup {name} |-> IF n = name THEN t ELSE rl[n]]

\* The rate-limit test of _try_provider on the text of an exception.
IsRateLimitError(msg) ==
    \E ind \in RateLimitIndicators : Contains(Lower(msg), ind)

\* ------------------------------------------------------------- _try_provider
\* _try_provider without the `is not None` test
TryProviderResultNoneOk(k, o) ==
    LET name == Lower(ProviderName(k))
    IN CASE o.kind \in {"data", "none"} -> ProviderResult(o.data, name, TRUE, None)
         [] OTHER -> ProviderResult(None, name, FALSE, Str(o.msg))

\* The ProviderResult _try_provider returns for registry key k when the
\* adapter call ends with outcome o.
TryProviderResult(k, o) ==
    LET name == Lower(ProviderName(k))
    IN CASE o.kind = "data" -> ProviderResult(o.data, name, TRUE, None)
         [] o.kind = "none" -> ProviderResult(None, name, FALSE, Str(NoDataReturned))
         [] OTHER -> ProviderResult(None, name, FALSE, Str(o.msg))

\* _try_provider that takes a successful answer as the end of the
\* provider's rate limit and forgets its record
TryProviderHealthClearing(rl, k, o, t) ==
    IF o.kind \in {"raise", "nomethod"} /\ IsRateLimitError(o.msg)
    THEN MarkProviderRateLimited(rl, Lower(ProviderName(k)), t)
    ELSE IF o.kind = "data"
         THEN [n \in DOMAIN rl \ {Lower(ProviderName(k))} |-> rl[n]]
         ELSE rl

\* The health map after _try_provider has handled outcome o of key k.
TryProviderHealth(rl, k, o, t) ==
    IF o.kind \in {"raise", "nomethod"} /\ IsRateLimitError(o.msg)
    THEN MarkProviderRateLimited(rl, Lower(ProviderName(k)), t)
    ELSE rl

\* ------------------------------------------------------------- aggregation
\* An aggregation returns [raised, data, results]: whether it raised, the
\* merged payload, and the ProviderResults as its in-place writes left them
\* (the merged object and the provider's payload are one object).

\* statistics.median of a non-empty list of numbers.  The quotes of this
\* model carry even prices, so the mean of the two middle ones is whole.
Median(xs) ==
    LET srt == SortSeq(xs, LAMBDA a, b : a < b)
        n == Len(srt)
    IN IF n % 2 = 1 THEN srt[(n + 1) \div 2]
       ELSE (srt[n \div 2] + srt[(n \div 2) + 1]) \div 2

MaxOf(xs) == CHOOSE m \in {xs[i] : i \in 1..Len(xs)} : \A i \in 1..Len(xs) : xs[i] <= m

\* MarketDataBrain._default_aggregation
DefaultAggregation(keys, results) ==
    [raised |-> FALSE, data |-> results[keys[1]].data, results |-> results]

\* MarketDataBrain._aggregate_economic_data
AggregateEconomicData(keys, results) ==
    [raised |-> FALSE, data |-> results[keys[1]].data, results |-> results]

\* MarketDataBrain._aggregate_quotes
AggregateQuotes(keys, results) ==
    LET n == Len(keys)
        quotes == [i \in 1..n |-> results[keys[i]].data]
        \* max() compares each further timestamp with the greatest so far
        raises == \E i \in 2..n : ~Comparable(quotes[i].timestamp, quotes[1].timestamp)
        pi == CHOOSE i \in 1..n :
                  /\ \A j \in 1..n : n > 1 => quotes[j].timestamp.v <= quotes[i].timestamp.v
                  /\ \A j \in 1..(i - 1) : quotes[j].timestamp.v < quotes[i].timestamp.v
        HasPrice(q) == Truthy(q.price)
        HasVolume(q) == Truthy(q.volume)
        priced == SelectSeq(quotes, HasPrice)
        voluminous == SelectSeq(quotes, HasVolume)
        prices == [i \in 1..Len(priced) |-> priced[i].price.v]
        volumes == [i \in 1..Len(voluminous) |-> voluminous[i].volume.v]
        p0 == quotes[pi]
        p1 == IF Len(prices) > 1 THEN [p0 EXCEPT !.price = Num(Median(prices))] ELSE p0
        p2 == IF Len(volumes) > 1 THEN [p1 EXCEPT !.volume = Num(MaxOf(volumes))] ELSE p1
        \* the first other quote, in order, that has field f
        Donors(f) == {i \in 1..n : i # pi /\ Truthy(quotes[i][f])}
        Filled(f) == quotes[CHOOSE i \in Donors(f) : \A j \in Donors(f) : i <= j][f]
        fillable == {QuoteFillFields[i] : i \in 1..Len(QuoteFillFields)}
        p3 == [f \in DOMAIN p2 |->
                 IF f \in fillable /\ ~Truthy(p2[f]) /\ Donors(f) # {}
                 THEN Filled(f) ELSE p2[f]]
    IN IF raises
       THEN [raised |-> TRUE, data |-> None, results |-> results]
       ELSE [raised |-> FALSE, data |-> p3,
             results |-> [results EXCEPT ![keys[pi]].data = p3]]

\* The records of the list payloads handed to an aggregation, in provider
\* order: each is named by <<index of its provider in keys, its position>>.
RECURSIVE Concatenate(_, _, _)
Concatenate(keys, results, i) ==
    IF i > Len(keys) THEN <<>>
    ELSE LET data == results[keys[i]].data
             own == IF data.tag = "list"
                    THEN [j \in 1..Len(data.items) |-> <<i, j>>]
                    ELSE <<>>
         IN own \o Concatenate(keys, results, i + 1)

\* The positions of seq, in order, whose element has no earlier equal
\* element.
FirstOccurrences(seq) ==
    LET IsFirst(x) == \A y \in 1..(x - 1) : seq[y] # seq[x]
    IN SelectSeq([x \in 1..Len(seq) |-> x], IsFirst)

\* date_key = price.date.strftime('%Y-%m-%d')
DateKey(price) == IsoFormat(price.date)

\* price_by_date[date_key] for the date of all_prices[x], as positions
PricesOfDate(all_prices, x) ==
    SelectSeq([y \in 1..Len(all_prices) |-> y],
              LAMBDA y : DateKey(all_prices[y]) = DateKey(all_prices[x]))

\* The primary keeps what it has: nothing is taken from the other records
BackfilledNever(all_prices, x, f) == all_prices[x][f]

\* The value field f of the primary all_prices[x] ends up with: its own
\* when that is truthy, else the first truthy one among the records of
\* its date.
Backfilled(all_prices, x, f) ==
    LET donors == SelectSeq(PricesOfDate(all_prices, x),
                            LAMBDA y : Truthy(all_prices[y][f]))
    IN IF ~Truthy(all_prices[x][f]) /\ donors # <<>>
       THEN all_prices[donors[1]][f]
       ELSE all_prices[x][f]

\* The primary all_prices[x] after the loop over the records of its date
Consolidated(all_prices, x) ==
    [all_prices[x] EXCEPT
        !.adjusted_close = Backfilled(all_prices, x, "adjusted_close"),
        !.dividend = Backfilled(all_prices, x, "dividend"),
        !.split = Backfilled(all_prices, x, "split")]

\* MarketDataBrain._aggregate_historical
AggregateHistorical(keys, results) ==
    LET refs == Concatenate(keys, results, 1)
        all_prices == [x \in 1..Len(refs) |->
                          results[keys[refs[x][1]]].data.items[refs[x][2]]]
        first == FirstOccurrences([x \in 1..Len(refs) |-> DateKey(all_prices[x])])
        consolidated == [i \in 1..Len(first) |-> Consolidated(all_prices, first[i])]
        sorted == SortSeq(consolidated, LAMBDA a, b : DateLess(a.date, b.date))
        \* the primaries are the providers' own records, changed in place
        written == [x \in 1..Len(refs) |->
                      IF x \in Range(first) THEN Consolidated(all_prices, x)
                      ELSE all_prices[x]]
        Items(k) == LET at == SelectSeq([x \in 1..Len(refs) |-> x],
                                        LAMBDA x : keys[refs[x][1]] = k)
                    IN [j \in 1..Len(at) |-> written[at[j]]]
    IN [raised |-> FALSE,
        data |-> List(sorted),
        results |-> [k \in DOMAIN results |->
                       IF k \in Range(keys) /\ results[k].data.tag = "list"
                       THEN [results[k] EXCEPT !.data.items = Items(k)]
                       ELSE results[k]]]

\* a or b
Or(a, b) == IF Truthy(a) THEN a ELSE b

\* The key without the option type
OptionKeyNoType(option) ==
    <<Or(option.strike, option.strike_price),
      Or(option.expiration, option.expiration_date)>>

\* key = (option.strike or option.strike_price,
\*        option.expiration or option.expiration_date, option.option_type)
OptionKey(option) ==
    <<Or(option.strike, option.strike_price),
      Or(option.expiration, option.expiration_date),
      option.option_type>>

\* MarketDataBrain._aggregate_options
AggregateOptions(keys, results) ==
    LET refs == Concatenate(keys, results, 1)
        all_options == [x \in 1..Len(refs) |->
                           results[keys[refs[x][1]]].data.items[refs[x][2]]]
        unique == FirstOccurrences([x \in 1..Len(refs) |-> OptionKey(all_options[x])])
    IN [raised |-> FALSE,
        data |-> List([i \in 1..Len(unique) |-> all_options[unique[i]]]),
        results |-> results]

\* s[:n]
Prefix(s, n) == SubSeq(s, 1, IF Len(s) < n THEN Len(s) ELSE n)

\* article.get(field, '')
GetOr(article, field) == IF field \in DOMAIN article THEN article[field] ELSE <<>>

\* MarketDataBrain._aggregate_news: the articles newest first, those of one
\* date in the order received (sorted() is stable), one per title.
AggregateNews(keys, results) ==
    LET refs == Concatenate(keys, results, 1)
        all_news == [x \in 1..Len(refs) |->
                        results[keys[refs[x][1]]].data.items[refs[x][2]]]
        Published(x) == GetOr(all_news[x], "published_date")
        Before(x, y) == \/ StrLess(Published(y), Published(x))
                        \/ Published(x) = Published(y) /\ x < y
        sorted == [i \in 1..Len(refs) |->
                     all_news[CHOOSE x \in 1..Len(refs) :
                                 Cardinality({y \in 1..Len(refs) : Before(y, x)}) = i - 1]]
        Title(article) == Prefix(Lower(GetOr(article, "title")), 100)
        unique == FirstOccurrences([x \in 1..Len(refs) |-> Title(sorted[x])])
    IN [raised |-> FALSE,
        data |-> List([i \in 1..Len(unique) |-> sorted[unique[i]]]),
        results |-> results]

\* d.get(field)
Get(d, field) == IF field \in DOMAIN d THEN d[field] ELSE None

\* date_key = dividend.get('date') or dividend.get('ex_date')
DividendKey(dividend) == Or(Get(dividend, "date"), Get(dividend, "ex_date"))

\* MarketDataBrain._aggregate_dividends: the first dividend of each date_key
AggregateDividends(keys, results) ==
    LET refs == Concatenate(keys, results, 1)
        all_dividends == [x \in 1..Len(refs) |->
                             results[keys[refs[x][1]]].data.items[refs[x][2]]]
        unique == FirstOccurrences([x \in 1..Len(refs) |-> DividendKey(all_dividends[x])])
    IN [raised |-> FALSE,
        data |-> List([i \in 1..Len(unique) |-> all_dividends[unique[i]]]),
        results |-> results]

\* self.aggregation_strategies.get(data_type, self._default_aggregation)
AggregationFunc(data_type, keys, results) ==
    CASE data_type = QuoteType -> AggregateQuotes(keys, results)
      [] data_type = HistoricalType -> AggregateHistorical(keys, results)
      [] data_type = IntradayType -> AggregateHistorical(keys, results)
      [] data_type = OptionsChainType -> AggregateOptions(keys, results)
      [] data_type = NewsType -> AggregateNews(keys, results)
      [] data_type = DividendsType -> AggregateDividends(keys, results)
      [] data_type = EconomicDataType -> AggregateEconomicData(keys, results)
      [] OTHER -> DefaultAggregation(keys, results)

\* ------------------------------------------------------------------ set-up
EmptyMap == [k \in {} |-> 0]

NoCount == [k \in Range(EnabledProviders) |-> 0]

NoReturn == [valid |-> FALSE, request |-> None, result |-> None]

NoCheck == [name |-> <<>>, value |-> FALSE, had |-> FALSE, elapsed |-> 0, left |-> FALSE]

IdleRequest == [method_name |-> <<>>, data_type |-> <<>>, kwargs |-> NoResults]

Init ==
    /\ now = 0
    /\ \E cfg \in CacheConfigs :
          /\ enable_caching = cfg.enable_caching
          /\ cache_ttl = cfg.cache_ttl_seconds
    /\ providers \in SUBSET ProviderClasses
    /\ rate_limited_providers = EmptyMap
    /\ cache = EmptyMap
    /\ pc = [c \in Calls |-> "idle"]
    /\ request = [c \in Calls |-> IdleRequest]
    /\ available = [c \in Calls |-> <<>>]
    /\ pending = [c \in Calls |-> {}]
    /\ tasks = [c \in Calls |-> NoResults]
    /\ result = [c \in Calls |-> None]
    /\ checked = NoCheck
    /\ hist = [hit |-> [c \in Calls |-> FALSE],
               fresh |-> [c \in Calls |-> FALSE],
               stale |-> [c \in Calls |-> FALSE],
               flagged |-> [c \in Calls |-> {}],
               prev |-> [c \in Calls |-> NoReturn],
               outcome |-> [c \in Calls |-> NoResults],
               invoked |-> [c \in Calls |-> NoCount],
               fetches |-> 0,
               last |-> NoReturn]

\* ----------------------------------------------- _fetch_from_all_providers
\* available_providers without the registry filter
AvailableProvidersUnfiltered(enabled, registry) == enabled

\* available_providers that skips the providers flagged as rate limited
AvailableProvidersHealthy(enabled, registry) ==
    LET Usable(p) == /\ p \in registry
                     /\ ~(p \in DOMAIN rate_limited_providers
                          /\ now - rate_limited_providers[p] <= CooldownSeconds)
    IN SelectSeq(enabled, Usable)

\* available_providers: the enabled identifiers that have an adapter
\* available_providers of a call that joins a fan-out already in flight
\* instead of starting its own
AvailableProvidersCoalesced(enabled, registry) ==
    LET InRegistry(p) == p \in registry
    IN IF \E c \in DOMAIN pc : pc[c] = "waiting" THEN <<>>
       ELSE SelectSeq(enabled, InRegistry)

AvailableProviders(enabled, registry) ==
    LET InRegistry(p) == p \in registry
    IN SelectSeq(enabled, InRegistry)

\* A caller that is not waiting for an earlier call enters
\* _fetch_from_all_providers, which runs up to its first suspension: cache
\* lookup, eligible set, creation of the provider tasks.
FetchStart(c, r) ==
    /\ pc[c] \in {"idle", "done"}
    /\ hist.fetches < MaxFetches
    /\ LET cache_key == GetCacheKey(r.data_type, r.kwargs)
           cached == cache_key \in DOMAIN cache /\ IsCacheValid(cache[cache_key])
           avail == AvailableProviders(EnabledProviders, providers)
           out == IF cached THEN cache[cache_key]
                  ELSE AggregatedResult(None, <<>>, FALSE, Str(NoProvidersAvailable), NoResults, now)
           returns == cached \/ avail = <<>>
           h1 == [hist EXCEPT
                    !.hit[c] = cached,
                    !.fetches = @ + 1,
                    !.fresh[c] = /\ hist.last.valid
                                 /\ hist.last.request = r
                                 /\ now - hist.last.result.timestamp < cache_ttl,
                    !.stale[c] = cache_key \in DOMAIN cache
                                 /\ now - cache[cache_key].timestamp > cache_ttl,
                    !.flagged[c] = {k \in providers :
                                      \/ k \in DOMAIN rate_limited_providers
                                      \/ Lower(ProviderName(k)) \in DOMAIN rate_limited_providers},
                    !.prev[c] = hist.last,
                    !.outcome[c] = NoResults,
                    !.invoked[c] = IF returns THEN NoCount
                                   ELSE [k \in DOMAIN NoCount |->
                                           IF k \in Range(avail) THEN 1 ELSE 0]]
       IN /\ request' = [request EXCEPT ![c] = r]
          /\ tasks' = [tasks EXCEPT ![c] = NoResults]
          /\ IF returns
             THEN /\ pc' = [pc EXCEPT ![c] = "done"]
                  /\ result' = [result EXCEPT ![c] = out]
                  /\ available' = [available EXCEPT ![c] = <<>>]
                  /\ pending' = [pending EXCEPT ![c] = {}]
                  /\ hist' = [h1 EXCEPT !.last = [valid |-> TRUE, request |-> r, result |-> out]]
             ELSE /\ pc' = [pc EXCEPT ![c] = "waiting"]
                  /\ result' = [result EXCEPT ![c] = None]
                  /\ available' = [available EXCEPT ![c] = avail]
                  /\ pending' = [pending EXCEPT ![c] = Range(avail)]
                  /\ hist' = h1
    /\ UNCHANGED <<now, enable_caching, cache_ttl, providers,
                   rate_limited_providers, cache, checked>>

\* A task that fails takes the tasks still in flight down with it: they end
\* as cancelled without their adapter call having ended.
TryProviderCancelling(c, k, o) ==
    /\ pc[c] = "waiting"
    /\ k \in pending[c]
    /\ LET gone == IF o.kind = "data" THEN {k} ELSE pending[c]
       IN /\ pending' = [pending EXCEPT ![c] = @ \ gone]
          /\ tasks' = [tasks EXCEPT ![c] =
                         [x \in DOMAIN @ \cup gone |->
                            IF x = k THEN TryProviderResult(k, o)
                            ELSE IF x \in gone
                                 THEN ProviderResult(None, x, FALSE, Str(NoDataReturned))
                                 ELSE @[x]]]
    /\ rate_limited_providers' = TryProviderHealth(rate_limited_providers, k, o, now)
    /\ hist' = [hist EXCEPT !.outcome[c] =
                   [x \in DOMAIN @ \cup {k} |-> IF x = k THEN o ELSE @[x]]]
    /\ UNCHANGED <<now, enable_caching, cache_ttl, providers, cache, pc,
                   request, available, result, checked>>

\* One provider task of call c settles: the adapter call for registry key k
\* ends with outcome o and _try_provider turns it into a ProviderResult.
TryProvider(c, k, o) ==
    /\ pc[c] = "waiting"
    /\ k \in pending[c]
    /\ pending' = [pending EXCEPT ![c] = @ \ {k}]
    /\ tasks' = [tasks EXCEPT ![c] =
                   [x \in DOMAIN @ \cup {k} |->
                      IF x = k THEN TryProviderResult(k, o) ELSE @[x]]]
    /\ rate_limited_providers' = TryProviderHealth(rate_limited_providers, k, o, now)
    /\ hist' = [hist EXCEPT !.outcome[c] =
                   [x \in DOMAIN @ \cup {k} |-> IF x = k THEN o ELSE @[x]]]
    /\ UNCHANGED <<now, enable_caching, cache_ttl, providers, cache, pc,
                   request, available, result, checked>>

\* Lines 303-316: a task result that is an exception object becomes a failed
\* ProviderResult under the registry key.
ProcessResult(res, provider_name) ==
    IF res.tag = "Exception"
    THEN ProviderResult(None, provider_name, FALSE, Str(res.msg))
    ELSE res

\* The dictionary of the results that are successful and carry data, as the
\* sequence of its keys in insertion order.
SuccessfulKeys(avail, processed) ==
    LET Ok(k) == processed[k].success /\ ~IsNone(processed[k].data)
    IN SelectSeq(avail, Ok)

\* The result built from the settled tasks, the total failure without its
\* provider_results
FetchOutcomeNoProvenance(r, avail, settled, t) ==
    LET processed == [k \in Range(avail) |-> ProcessResult(settled[k], k)]
        successful == SuccessfulKeys(avail, processed)
        agg == AggregationFunc(r.data_type, successful, processed)
        aggregated_data == IF agg.raised THEN agg.results[successful[1]].data ELSE agg.data
    IN IF successful = <<>>
       THEN AggregatedResult(None, <<>>, FALSE, Str(AllProvidersFailed), NoResults, t)
       ELSE AggregatedResult(aggregated_data, successful, TRUE, None, agg.results, t)

\* The result built from the settled tasks, an aggregation error falling
\* back to the last successful result
FetchOutcomeLastOnError(r, avail, settled, t) ==
    LET processed == [k \in Range(avail) |-> ProcessResult(settled[k], k)]
        successful == SuccessfulKeys(avail, processed)
        agg == AggregationFunc(r.data_type, successful, processed)
        aggregated_data == IF agg.raised THEN agg.results[successful[Len(successful)]].data
                           ELSE agg.data
    IN IF successful = <<>>
       THEN AggregatedResult(None, <<>>, FALSE, Str(AllProvidersFailed), processed, t)
       ELSE AggregatedResult(aggregated_data, successful, TRUE, None, agg.results, t)

\* The AggregatedResult built from the settled tasks (lines 303-350).
FetchOutcome(r, avail, settled, t) ==
    LET processed == [k \in Range(avail) |-> ProcessResult(settled[k], k)]
        successful == SuccessfulKeys(avail, processed)
        agg == AggregationFunc(r.data_type, successful, processed)
        \* on an exception: the first successful result's payload
        aggregated_data == IF agg.raised THEN agg.results[successful[1]].data ELSE agg.data
    IN IF successful = <<>>
       THEN AggregatedResult(None, <<>>, FALSE, Str(AllProvidersFailed), processed, t)
       ELSE AggregatedResult(aggregated_data, successful, TRUE, None, agg.results, t)

\* The end of the call with the cache written whatever the result
CacheAfterFetchAlways(store, cache_key, res) ==
    IF enable_caching
    THEN [x \in DOMAIN store \cup {cache_key} |-> IF x = cache_key THEN res ELSE store[x]]
    ELSE store

\* The end of the call with an entry that is already there updated in part:
\* it keeps its provider_results
CacheAfterFetchInPart(store, cache_key, res) ==
    IF res.success /\ enable_caching
    THEN [x \in DOMAIN store \cup {cache_key} |->
             IF x # cache_key THEN store[x]
             ELSE IF cache_key \in DOMAIN store
                  THEN [res EXCEPT !.provider_results = store[cache_key].provider_results]
                  ELSE res]
    ELSE store

\* The end of the call without the cache write
CacheAfterFetchSkip(store, cache_key, res) == store

\* The cache after the call has finished with result res (lines 354-356).
CacheAfterFetch(store, cache_key, res) ==
    IF res.success /\ enable_caching
    THEN [x \in DOMAIN store \cup {cache_key} |-> IF x = cache_key THEN res ELSE store[x]]
    ELSE store

\* gather() hands back as soon as one task has settled: the call resumes
\* with the providers that have answered so far
FetchFinishEarly(c) ==
    /\ pc[c] = "waiting"
    /\ pending[c] # Range(available[c])
    /\ LET r == request[c]
           cache_key == GetCacheKey(r.data_type, r.kwargs)
           avail == SelectSeq(available[c], LAMBDA k : k \in DOMAIN tasks[c])
           out == FetchOutcome(r, avail, tasks[c], now)
       IN /\ result' = [result EXCEPT ![c] = out]
          /\ cache' = CacheAfterFetch(cache, cache_key, out)
          /\ hist' = [hist EXCEPT
                        !.last = [valid |-> TRUE, request |-> r, result |-> out]]
    /\ pc' = [pc EXCEPT ![c] = "done"]
    /\ UNCHANGED <<now, enable_caching, cache_ttl, providers,
                   rate_limited_providers, request, available, pending,
                   tasks, checked>>

\* gather() has returned: the call resumes, processes the results,
\* aggregates, writes the cache and returns.
FetchFinish(c) ==
    /\ pc[c] = "waiting"
    /\ pending[c] = {}
    /\ LET r == request[c]
           cache_key == GetCacheKey(r.data_type, r.kwargs)
           out == FetchOutcome(r, available[c], tasks[c], now)
       IN /\ result' = [result EXCEPT ![c] = out]
          /\ cache' = CacheAfterFetch(cache, cache_key, out)
          /\ hist' = [hist EXCEPT
                        !.last = [valid |-> TRUE, request |-> r, result |-> out]]
    /\ pc' = [pc EXCEPT ![c] = "done"]
    /\ UNCHANGED <<now, enable_caching, cache_ttl, providers,
                   rate_limited_providers, request, available, pending,
                   tasks, checked>>

\* MarketDataBrain.clear_cache
ClearCache ==
    /\ cache # EmptyMap
    /\ cache' = EmptyMap
    /\ hist' = [hist EXCEPT !.last = NoReturn]
    /\ UNCHANGED <<now, enable_caching, cache_ttl, providers,
                   rate_limited_providers, pc, request, available, pending,
                   tasks, result, checked>>

\* A direct call of _mark_provider_rate_limited(name)
MarkRateLimited(name) ==
    /\ rate_limited_providers' = MarkProviderRateLimited(rate_limited_providers, name, now)
    /\ UNCHANGED <<now, enable_caching, cache_ttl, providers, cache, pc,
                   request, available, pending, tasks, result, checked, hist>>

\* A call of _is_provider_rate_limited(name)
CheckRateLimited(name) ==
    /\ rate_limited_providers' = IsProviderRateLimitedMap(rate_limited_providers, name, now)
    /\ checked' = [name |-> name,
                   value |-> IsProviderRateLimited(rate_limited_providers, name, now),
                   had |-> name \in DOMAIN rate_limited_providers,
                   elapsed |-> IF name \in DOMAIN rate_limited_providers
                               THEN now - rate_limited_providers[name] ELSE 0,
                   left |-> name \in DOMAIN rate_limited_providers']
    /\ UNCHANGED <<now, enable_caching, cache_ttl, providers, cache, pc,
                   request, available, pending, tasks, result, hist>>

\* The provider configurations get_provider_status reads, of those whose
\* adapter is modelled.
StatusNames == <<AlphaVantageKey, FinnhubKey, PolygonKey>>

\* A configuration the registry was built from: _initialize_providers
\* builds an adapter for a provider that is enabled and has an API key.
ConfigOf(registry) ==
    [name \in Range(StatusNames) |->
        [enabled |-> name \in registry,
         api_key |-> IF name \in registry THEN Str(name) ELSE None]]

\* MarketDataBrain.get_provider_status
GetProviderStatus(config) ==
    [name \in Range(StatusNames) |->
        config[name].enabled /\ ~IsNone(config[name].api_key)]

\* Time passes.
Tick ==
    /\ \E t \in TimePoints : t > now /\ now' = t
    /\ UNCHANGED <<enable_caching, cache_ttl, providers, rate_limited_providers,
                   cache, pc, request, available, pending, tasks, result,
                   checked, hist>>

\* Time passes, up to and beyond the cooldown.
TickCooldown ==
    /\ \E t \in CooldownPoints : t > now /\ now' = t
    /\ UNCHANGED <<enable_caching, cache_ttl, providers, rate_limited_providers,
                   cache, pc, request, available, pending, tasks, result,
                   checked, hist>>

Next ==
    \/ \E c \in Calls, r \in Requests : FetchStart(c, r)
    \/ \E c \in Calls, k \in ProviderClasses :
          \E o \in (IF pc[c] = "waiting" THEN AdapterOutcomes(request[c], k) ELSE {}) :
              TryProvider(c, k, o)
    \/ \E c \in Calls : FetchFinish(c)
    \/ ClearCache
    \/ Tick

\* The orchestrator: public operations, their provider tasks, the cache.
Spec == Init /\ [][Next]_vars

\* Every adapter call that was dispatched ends, and the event loop resumes
\* a call whose tasks have all settled.
Fairness ==
    \A c \in Calls :
        /\ WF_vars(\E k \in ProviderClasses :
                      \E o \in (IF pc[c] = "waiting"
                                THEN AdapterOutcomes(request[c], k) ELSE {}) :
                          TryProvider(c, k, o))
        /\ WF_vars(FetchFinish(c))

\* The steps of calls whose adapter calls all end
NextLive ==
    \/ \E c \in Calls, r \in Requests : FetchStart(c, r)
    \/ \E c \in Calls, k \in ProviderClasses :
          \E o \in (IF pc[c] = "waiting" THEN AdapterOutcomes(request[c], k) ELSE {}) :
              TryProvider(c, k, o)
    \/ \E c \in Calls : FetchFinish(c)
    \/ Tick

\* The orchestrator with every adapter call ending: calls, their tasks and
\* the passing of time.
SpecLive == Init /\ [][NextLive]_vars /\ Fairness

\* Time passes until every record written so far has outlived its cooldown.
TickExpiry ==
    /\ now <= MaxClock
    /\ now' = now + CooldownSeconds + 1
    /\ UNCHANGED <<enable_caching, cache_ttl, providers, rate_limited_providers,
                   cache, pc, request, available, pending, tasks, result,
                   checked, hist>>

NextTracked ==
    \/ \E c \in Calls, r \in Requests : FetchStart(c, r)
    \/ \E c \in Calls, k \in ProviderClasses :
          \E o \in (IF pc[c] = "waiting" THEN AdapterOutcomes(request[c], k) ELSE {}) :
              TryProvider(c, k, o)
    \/ \E c \in Calls : FetchFinish(c)
    \/ \E name \in HealthNames : CheckRateLimited(name)
    \/ TickExpiry

\* The orchestrator next to direct look-ups of the health tracker, before
\* and after the cooldown.
SpecTracked == Init /\ [][NextTracked]_vars

NextHealth ==
    \/ \E name \in HealthNames : MarkRateLimited(name)
    \/ \E name \in HealthNames : CheckRateLimited(name)
    \/ TickCooldown

\* The health tracker on its own, over the whole cooldown.
SpecHealth == Init /\ [][NextHealth]_vars

\* The merge runs start with any set of the three adapters built.
\* The state after construction with the given callers and registry
InitFor(callers, registry) ==
    /\ now = 0
    /\ \E cfg \in CacheConfigs :
          /\ enable_caching = cfg.enable_caching
          /\ cache_ttl = cfg.cache_ttl_seconds
    /\ providers \in SUBSET registry
    /\ rate_limited_providers = EmptyMap
    /\ cache = EmptyMap
    /\ pc = [c \in callers |-> "idle"]
    /\ request = [c \in callers |-> IdleRequest]
    /\ available = [c \in callers |-> <<>>]
    /\ pending = [c \in callers |-> {}]
    /\ tasks = [c \in callers |-> NoResults]
    /\ result = [c \in callers |-> None]
    /\ checked = NoCheck
    /\ hist = [hit |-> [c \in callers |-> FALSE],
               fresh |-> [c \in callers |-> FALSE],
               stale |-> [c \in callers |-> FALSE],
               flagged |-> [c \in callers |-> {}],
               prev |-> [c \in callers |-> NoReturn],
               outcome |-> [c \in callers |-> NoResults],
               invoked |-> [c \in callers |-> NoCount],
               fetches |-> 0,
               last |-> NoReturn]

InitMerge == InitFor(Calls, MergeProviders)

\* The requests a caller issues in the merge runs: any at first, later the
\* ones the cache still answers.
MergeRequestsNow ==
    IF hist.fetches = 0 THEN MergeRequests
    ELSE {r \in MergeRequests :
            LET cache_key == GetCacheKey(r.data_type, r.kwargs)
            IN cache_key \in DOMAIN cache /\ IsCacheValid(cache[cache_key])}

NextMerge ==
    \/ \E c \in Calls, r \in MergeRequestsNow : FetchStart(c, r)
    \/ \E c \in Calls, k \in MergeProviders :
          \E o \in (IF pc[c] = "waiting" THEN MergeOutcomes(request[c], k) ELSE {}) :
              TryProvider(c, k, o)
    \/ \E c \in Calls : FetchFinish(c)

\* The orchestrator with three adapters, merging quotes, price series and
\* option chains.
SpecMerge == InitMerge /\ [][NextMerge]_vars

\* Two callers of one brain, each issuing one operation; the operations may
\* overlap.
Callers == 1..(MaxCalls + 1)

InitPair == InitFor(Callers, ProviderClasses)

NextPair ==
    \/ \E c \in Callers, r \in Requests : FetchStart(c, r)
    \/ \E c \in Callers, k \in ProviderClasses :
          \E o \in (IF pc[c] = "waiting" THEN AdapterOutcomes(request[c], k) ELSE {}) :
              TryProvider(c, k, o)
    \/ \E c \in Callers : FetchFinish(c)

SpecPair == InitPair /\ [][NextPair]_vars

NextShared ==
    \/ NextPair
    \/ ClearCache

\* Two callers of one brain whose operations may overlap, and clear_cache
\* between any two of their steps.
SpecShared == InitPair /\ [][NextShared]_vars

\* News queries whose parameters differ: no symbol and the symbol "None";
\* a publication window given as two parameters and as one value that
\* spells both; beside them a plain query and a quote.
PublishedFrom == <<"2","0","2","4","-","0","1","-","0","2">>
PublishedUntil == <<"2","0","2","4","-","0","1","-","0","3">>

KeyRequests ==
    { GetNews(None, Num(10), NoResults),
      GetNews(Str(<<"N","o","n","e">>), Num(10), NoResults),
      GetNews(Str(AAPL), Num(10), NoResults),
      GetNews(Str(AAPL), Num(10),
              (PublishedAfterArg :> Str(PublishedFrom))
                  @@ (PublishedBeforeArg :> Str(PublishedUntil))),
      GetNews(Str(AAPL), Num(10),
              PublishedAfterArg :>
                  Str(PublishedFrom \o <<"_">> \o PublishedBeforeArg \o <<"=">> \o PublishedUntil)),
      GetQuote(AAPL) }

UnexpectedKeywordText ==
    <<"u","n","e","x","p","e","c","t","e","d"," ","k","e","y","w","o","r","d">>

\* What an adapter's get_news may do: polygon returns the articles its API
\* found for the query; alpha_vantage's get_news has no published_after or
\* published_before parameter, so such a call raises TypeError.
KeyOutcomes(r, k) ==
    IF r.data_type # NewsType THEN AdapterOutcomes(r, k)
    ELSE IF k = AlphaVantageKey /\ PublishedAfterArg \in DOMAIN r.kwargs
    THEN { [kind |-> "raise", data |-> None, msg |-> UnexpectedKeywordText] }
    ELSE { [kind |-> "data", msg |-> <<>>,
            data |-> List(<< [title |-> ProviderName(k), query |-> r.kwargs] >>)],
           [kind |-> "none", data |-> None, msg |-> <<>>] }

InitKeys == InitFor(Calls, ProviderClasses)

NextKeys ==
    \/ \E c \in Calls, r \in KeyRequests : FetchStart(c, r)
    \/ \E c \in Calls, k \in ProviderClasses :
          \E o \in (IF pc[c] = "waiting" THEN KeyOutcomes(request[c], k) ELSE {}) :
              TryProvider(c, k, o)
    \/ \E c \in Calls : FetchFinish(c)

\* The orchestrator serving requests whose parameters differ, one after
\* the other.
SpecKeys == InitKeys /\ [][NextKeys]_vars

\* The operations whose payloads are lists of the dictionaries an adapter
\* passes on as its API sent them.
LoneRequests == {GetDividends(AAPL), GetNews(Str(AAPL), Num(10), NoResults)}

\* A dividend as an API may spell it: its day under the given field name.
Dividend(field, day, amount) == (field :> Str(day)) @@ ("cash_amount" :> Num(amount))

\* Two dividends of different days, the day under 'ex_date', under 'date'
\* or under a name _aggregate_dividends does not look up.
DividendLists ==
    { <<>> } \cup
    { <<Dividend(field, PublishedFrom, 1), Dividend(field, PublishedUntil, 2)>> :
          field \in {"date", "ex_date", "ex_dividend_date"} }

\* Two articles, with different headlines or with the same one.
NewsLists(k) ==
    { <<>>,
      << [title |-> ProviderName(k), url |-> 1], [title |-> AAPL, url |-> 2] >>,
      << [title |-> AAPL, url |-> 1], [title |-> AAPL, url |-> 2] >> }

\* What the adapters hand back: polygon's get_dividends and get_news return
\* the API's list, or [] after any failure; alpha_vantage has no
\* get_dividends, and its get_news returns the feed or None.
LoneOutcomes(r, k) ==
    IF r.data_type = DividendsType
    THEN IF k = PolygonKey
         THEN { [kind |-> "data", data |-> List(d), msg |-> <<>>] : d \in DividendLists }
         ELSE { [kind |-> "nomethod", data |-> None, msg |-> NoAttributeText] }
    ELSE { [kind |-> "data", data |-> List(n), msg |-> <<>>] : n \in NewsLists(k) }
         \cup (IF k = PolygonKey THEN {}
               ELSE { [kind |-> "none", data |-> None, msg |-> <<>>] })

InitLone == InitFor(Calls, ProviderClasses)

NextLone ==
    \/ \E c \in Calls, r \in LoneRequests : FetchStart(c, r)
    \/ \E c \in Calls, k \in ProviderClasses :
          \E o \in (IF pc[c] = "waiting" THEN LoneOutcomes(request[c], k) ELSE {}) :
              TryProvider(c, k, o)
    \/ \E c \in Calls : FetchFinish(c)

\* The orchestrator serving dividends and news, where one provider is often
\* the only one to answer.
SpecLone == InitLone /\ [][NextLone]_vars

\* ------------------------------------------------------- batch operations
MSFT == <<"M","S","F","T">>

\* The symbols argument of a batch operation: empty, one symbol, two
\* symbols in either order, one symbol twice.
SymbolLists == { <<>>, <<AAPL>>, <<AAPL, MSFT>>, <<MSFT, AAPL>>, <<AAPL, AAPL>> }

GetMultipleQuotes == <<"g","e","t","_","m","u","l","t","i","p","l","e","_","q","u","o","t","e","s">>
GetMultipleHistorical ==
    <<"g","e","t","_","m","u","l","t","i","p","l","e","_","h","i","s","t","o","r","i","c","a","l">>

\* The call a batch operation makes for one symbol: self.get_quote(symbol),
\* or self.get_historical(symbol, start_date, end_date, interval).
SingleRequest(op, symbol) ==
    IF op = GetMultipleQuotes THEN GetQuote(symbol)
    ELSE GetHistorical(symbol, January2, January3, Daily)

\* One task for every item of symbols, repeated symbols included
BatchTasksPerItem(symbols) == symbols

\* tasks = {symbol: self.get_quote(symbol) for symbol in symbols}: the keys
\* of the dictionary in insertion order, one for each different symbol.
BatchTasks(symbols) ==
    [i \in 1..Len(FirstOccurrences(symbols)) |-> symbols[FirstOccurrences(symbols)[i]]]

\* What an adapter hands back to a call made by a batch operation.
BatchOutcomes(r, k) ==
    IF r.data_type = QuoteType THEN AdapterOutcomes(r, k)
    ELSE { [kind |-> "data", msg |-> <<>>,
            data |-> List(<<MkHistoricalPrice(January2, Num(7), ProviderName(k))>>)] }
         \cup { [kind |-> "raise", data |-> None, msg |-> m] : m \in ErrorTexts }

\* The caller of the batch operation; the calls it makes run as the callers
\* 1, 2, ...
BatchCaller == 0

InitBatch == InitFor({BatchCaller} \cup Callers, ProviderClasses)

\* get_multiple_quotes / get_multiple_historical up to the await: the
\* dictionary of the calls to make is built and handed to gather(); without
\* symbols gather() has nothing to wait for and the empty map is returned.
BatchStart(op, symbols) ==
    /\ pc[BatchCaller] = "idle"
    /\ Len(BatchTasks(symbols)) <= Cardinality(Callers)
    /\ request' = [request EXCEPT ![BatchCaller] =
                      [method_name |-> op, data_type |-> <<>>,
                       kwargs |-> "symbols" :> symbols]]
    /\ tasks' = [tasks EXCEPT ![BatchCaller] = BatchTasks(symbols)]
    /\ pc' = [pc EXCEPT ![BatchCaller] =
                 IF BatchTasks(symbols) = <<>> THEN "done" ELSE "gathering"]
    /\ result' = [result EXCEPT ![BatchCaller] =
                     IF BatchTasks(symbols) = <<>> THEN EmptyMap ELSE None]
    /\ UNCHANGED <<now, enable_caching, cache_ttl, providers,
                   rate_limited_providers, cache, available, pending,
                   checked, hist>>

\* The call for the c-th key of the dictionary starts.
BatchCall(c) ==
    /\ pc[BatchCaller] = "gathering"
    /\ c \in 1..Len(tasks[BatchCaller])
    /\ pc[c] = "idle"
    /\ FetchStart(c, SingleRequest(request[BatchCaller].method_name,
                                   tasks[BatchCaller][c]))

\* gather() has every result: return dict(zip(tasks.keys(), results)).
BatchFinish ==
    /\ pc[BatchCaller] = "gathering"
    /\ \A c \in 1..Len(tasks[BatchCaller]) : pc[c] = "done"
    /\ result' = [result EXCEPT ![BatchCaller] =
                     [symbol \in Range(tasks[BatchCaller]) |->
                         result[CHOOSE c \in 1..Len(tasks[BatchCaller]) :
                                    tasks[BatchCaller][c] = symbol]]]
    /\ pc' = [pc EXCEPT ![BatchCaller] = "done"]
    /\ UNCHANGED <<now, enable_caching, cache_ttl, providers,
                   rate_limited_providers, cache, request, available,
                   pending, tasks, checked, hist>>

NextBatch ==
    \/ \E op \in {GetMultipleQuotes, GetMultipleHistorical}, symbols \in SymbolLists :
          BatchStart(op, symbols)
    \/ \E c \in Callers : BatchCall(c)
    \/ \E c \in Callers, k \in ProviderClasses :
          \E o \in (IF pc[c] = "waiting" THEN BatchOutcomes(request[c], k) ELSE {}) :
              TryProvider(c, k, o)
    \/ \E c \in Callers : FetchFinish(c)
    \/ BatchFinish

\* One batch operation and the calls it makes, which overlap.
SpecBatch == InitBatch /\ [][NextBatch]_vars

\* ------------------------------------------------------------------- close
\* The keys of provider_classes in the order _initialize_providers fills the
\* registry, which is the order close() walks it in.
RegistryOrder == <<AlphaVantageKey, FinnhubKey, PolygonKey>>

\* What closing one adapter may do: the adapter has no close attribute, its
\* close() returns, its close() raises an Exception.
CloseOutcomes == {"absent", "returned", "raised"}

CloseFailed == <<"C","l","o","s","e"," ","f","a","i","l","e","d">>

\* The caller of close()
CloseCaller == 0

InitClose == InitFor({CloseCaller}, MergeProviders)

\* close() is called: the loop over self.providers.values() begins.
CloseStart ==
    /\ pc[CloseCaller] = "idle"
    /\ pc' = [pc EXCEPT ![CloseCaller] = "closing"]
    /\ request' = [request EXCEPT ![CloseCaller] =
                      [method_name |-> <<"c","l","o","s","e">>, data_type |-> <<>>,
                       kwargs |-> NoResults]]
    /\ available' = [available EXCEPT ![CloseCaller] =
                        SelectSeq(RegistryOrder, LAMBDA k : k \in providers)]
    /\ UNCHANGED <<now, enable_caching, cache_ttl, providers,
                   rate_limited_providers, cache, pending, tasks, result,
                   checked, hist>>

\* An exception raised by an adapter's close() leaves close()
CloseProviderPropagating(o) ==
    /\ pc[CloseCaller] = "closing"
    /\ available[CloseCaller] # <<>>
    /\ LET provider == Head(available[CloseCaller])
       IN /\ tasks' = [tasks EXCEPT ![CloseCaller] =
                          [x \in DOMAIN @ \cup {provider} |->
                              IF x = provider THEN o ELSE @[x]]]
          /\ hist' = [hist EXCEPT !.invoked[CloseCaller][provider] =
                         IF o = "absent" THEN @ ELSE @ + 1]
    /\ IF o = "raised"
       THEN /\ pc' = [pc EXCEPT ![CloseCaller] = "done"]
            /\ result' = [result EXCEPT ![CloseCaller] =
                             [tag |-> "Exception", msg |-> CloseFailed]]
            /\ available' = [available EXCEPT ![CloseCaller] = <<>>]
       ELSE /\ available' = [available EXCEPT ![CloseCaller] = Tail(@)]
            /\ UNCHANGED <<pc, result>>
    /\ UNCHANGED <<now, enable_caching, cache_ttl, providers,
                   rate_limited_providers, cache, request, pending, checked>>

\* One turn of the loop, for the next adapter of the registry: close() is
\* awaited if the adapter has one, and an Exception it raises is logged.
CloseProvider(o) ==
    /\ pc[CloseCaller] = "closing"
    /\ available[CloseCaller] # <<>>
    /\ LET provider == Head(available[CloseCaller])
       IN /\ tasks' = [tasks EXCEPT ![CloseCaller] =
                          [x \in DOMAIN @ \cup {provider} |->
                              IF x = provider THEN o ELSE @[x]]]
          /\ hist' = [hist EXCEPT !.invoked[CloseCaller][provider] =
                         IF o = "absent" THEN @ ELSE @ + 1]
    /\ available' = [available EXCEPT ![CloseCaller] = Tail(@)]
    /\ UNCHANGED <<now, enable_caching, cache_ttl, providers,
                   rate_limited_providers, cache, pc, request, pending,
                   result, checked>>

\* The loop has passed every adapter: close() returns None.
CloseFinish ==
    /\ pc[CloseCaller] = "closing"
    /\ available[CloseCaller] = <<>>
    /\ pc' = [pc EXCEPT ![CloseCaller] = "done"]
    /\ result' = [result EXCEPT ![CloseCaller] = None]
    /\ UNCHANGED <<now, enable_caching, cache_ttl, providers,
                   rate_limited_providers, cache, request, available,
                   pending, tasks, checked, hist>>

NextClose ==
    \/ CloseStart
    \/ \E o \in CloseOutcomes : CloseProvider(o)
    \/ CloseFinish

\* The shutdown of a brain with up to three adapters.
SpecClose == InitClose /\ [][NextClose]_vars

\* ------------------------------------------------------------- properties
\* The providers a call that misses the cache must reach: those listed as
\* enabled that have an adapter in the registry.
Eligible == {k \in Range(EnabledProviders) : k \in providers}

Dispatched(c) == {k \in DOMAIN hist.invoked[c] : hist.invoked[c][k] > 0}

Failed(o) == o.kind # "data"

\* Call c went through a fan-out and every task of it has settled.
FannedOut(c) == pc[c] = "done" /\ ~hist.hit[c] /\ available[c] # <<>>

\* C1 as stated: a call that follows a return for the same operation and
\* parameters, within the TTL and with caching enabled, returns what that
\* call returned and invokes no adapter.
C1_AnyRepeatServedFromCache ==
    \A c \in Calls :
        (pc[c] # "idle" /\ enable_caching /\ hist.fresh[c])
        => (result[c] = hist.prev[c].result /\ Dispatched(c) = {})

\* C1 amended: when the earlier call succeeded, the call that follows it for
\* the same operation and parameters, within the TTL and with caching
\* enabled, returns the same AggregatedResult and invokes no adapter.
C1_RepeatOfSuccessServedFromCache ==
    \A c \in Calls :
        (pc[c] # "idle" /\ enable_caching /\ hist.fresh[c] /\ hist.prev[c].result.success)
        => (result[c] = hist.prev[c].result /\ Dispatched(c) = {})

C1_Witness ==
    \E c \in Calls :
        /\ pc[c] = "done" /\ enable_caching /\ hist.fresh[c]
        /\ hist.prev[c].result.success
        /\ Cardinality(DOMAIN hist.prev[c].result.provider_results) = 2
        /\ hist.hit[c]
        /\ result[c] = hist.prev[c].result

\* C2: a call that finds a cache entry older than the TTL is not served from
\* the cache: it dispatches to every eligible provider, and when they all
\* fail it returns the failure, not the stale data.
C2_StaleEntryNeverReturned ==
    \A c \in Calls :
        (pc[c] # "idle" /\ hist.stale[c])
        => /\ ~hist.hit[c]
           /\ Dispatched(c) = Eligible
           /\ Eligible # {}
           /\ (pc[c] = "done" /\ \A k \in Eligible : Failed(hist.outcome[c][k]))
              => (~result[c].success /\ IsNone(result[c].data))

C2_Witness ==
    \E c \in Calls :
        /\ pc[c] = "done" /\ hist.stale[c] /\ enable_caching
        /\ \A k \in Eligible : Failed(hist.outcome[c][k])
        /\ ~result[c].success
        /\ GetCacheKey(request[c].data_type, request[c].kwargs) \in DOMAIN cache

\* C3: once a call has returned, every provider whose adapter raised an
\* error naming a rate limit has a health record under its registry key, and
\* _is_provider_rate_limited of that key is true, while the call succeeded
\* from the other provider.
C3_RateLimitRecordedUnderRegistryKey ==
    \A c \in Calls :
        FannedOut(c)
        => \A k \in Range(available[c]) :
              (/\ hist.outcome[c][k].kind = "raise"
               /\ IsRateLimitError(hist.outcome[c][k].msg)
               /\ \E j \in Range(available[c]) : ~Failed(hist.outcome[c][j]))
              => /\ k \in DOMAIN rate_limited_providers
                 /\ IsProviderRateLimited(rate_limited_providers, k, now)
                 /\ result[c].success

\* C4: when every dispatched adapter call fails, the result is the total
\* failure: success false, no data, no providers used, the error "All
\* providers failed to return data", one failed entry per attempted provider.
C4_AllProvidersFail ==
    \A c \in Calls :
        (FannedOut(c) /\ \A k \in Range(available[c]) : Failed(hist.outcome[c][k]))
        => /\ ~result[c].success
           /\ IsNone(result[c].data)
           /\ result[c].providers_used = <<>>
           /\ result[c].error = Str(AllProvidersFailed)
           /\ DOMAIN result[c].provider_results = Eligible
           /\ \A k \in Eligible :
                 /\ ~result[c].provider_results[k].success
                 /\ IsNone(result[c].provider_results[k].data)

C4_Witness ==
    \E c \in Calls :
        /\ FannedOut(c)
        /\ Cardinality(Eligible) = 2
        /\ \E k \in Eligible : hist.outcome[c][k].kind = "raise"
        /\ \E k \in Eligible : hist.outcome[c][k].kind = "none"
        /\ ~result[c].success
        /\ DOMAIN result[c].provider_results = Eligible

\* C5: with no eligible provider the call fails at once with "No providers
\* available", which is not the error of the total failure, with empty
\* provider_results and without invoking an adapter.
C5_NoProvidersAvailable ==
    \A c \in Calls :
        (pc[c] # "idle" /\ ~hist.hit[c] /\ Eligible = {})
        => /\ pc[c] = "done"
           /\ ~result[c].success
           /\ result[c].error = Str(NoProvidersAvailable)
           /\ result[c].error # Str(AllProvidersFailed)
           /\ result[c].provider_results = NoResults
           /\ Dispatched(c) = {}

C5_Witness ==
    \E c \in Calls :
        /\ pc[c] = "done" /\ ~hist.hit[c] /\ Eligible = {}
        /\ result[c].error = Str(NoProvidersAvailable)

\* C6: a call that is not served from the cache invokes exactly the eligible
\* providers, each once, whatever the health tracker holds.
C6_RateLimitedStillDispatched ==
    \A c \in Calls :
        (pc[c] # "idle" /\ ~hist.hit[c])
        => /\ Dispatched(c) = Eligible
           /\ \A k \in Dispatched(c) : hist.invoked[c][k] = 1

C6_Witness ==
    \E c \in Calls :
        /\ pc[c] = "waiting"
        /\ PolygonKey \in hist.flagged[c]
        /\ PolygonKey \in DOMAIN rate_limited_providers
        /\ IsProviderRateLimited(rate_limited_providers, PolygonKey, now)
        /\ PolygonKey \in Dispatched(c)

\* C7: a record just written makes _is_provider_rate_limited true; once
\* more than the cooldown has passed the call returns false and leaves no
\* record for the provider.
C7_CooldownRecovery ==
    /\ \A name \in DOMAIN rate_limited_providers :
          rate_limited_providers[name] = now
          => IsProviderRateLimited(rate_limited_providers, name, now)
    /\ (checked.had /\ checked.elapsed = 0) => (checked.value /\ checked.left)
    /\ (checked.had /\ checked.elapsed > CooldownSeconds)
       => (~checked.value /\ ~checked.left)

C7_Witness ==
    /\ checked.had /\ checked.elapsed > CooldownSeconds
    /\ ~checked.value
    /\ checked.name \notin DOMAIN rate_limited_providers

\* C8 as stated: _is_provider_rate_limited is true exactly while a record
\* exists and less than 3600 seconds have passed since it was written; from
\* 3600 seconds on it returns false and the record is deleted.
C8_ExpiredFromCooldownOn ==
    /\ checked.value <=> (checked.had /\ checked.elapsed < 3600)
    /\ (checked.had /\ checked.elapsed >= 3600) => (~checked.value /\ ~checked.left)

\* C8 amended: _is_provider_rate_limited is true exactly while a record
\* exists and at most 3600 seconds have passed since it was written; once
\* more than 3600 seconds have passed it returns false and the record is
\* deleted.
C8_ExpiredAfterCooldown ==
    /\ checked.value <=> (checked.had /\ checked.elapsed <= 3600)
    /\ checked.left <=> checked.value
    /\ \A name \in HealthNames :
          IsProviderRateLimited(rate_limited_providers, name, now)
          <=> (name \in DOMAIN rate_limited_providers
               /\ now - rate_limited_providers[name] <= 3600)

C8_Witness ==
    /\ checked.had /\ checked.elapsed = 3600
    /\ checked.value /\ checked.left

\* C9: an adapter call that raises, returns None or lacks the method becomes
\* a failed ProviderResult under its provider's key, the results of the
\* other providers are kept, and the call, once every task has settled, can
\* always finish with an AggregatedResult.
C9_AdapterFailuresRecovered ==
    \A c \in Calls :
        /\ (pc[c] = "waiting" /\ pending[c] = {}) => ENABLED FetchFinish(c)
        /\ FannedOut(c)
           => /\ DOMAIN result[c].provider_results = Eligible
              /\ \A k \in Eligible :
                    LET o == hist.outcome[c][k]
                        r == result[c].provider_results[k]
                    IN IF Failed(o)
                       THEN /\ ~r.success /\ IsNone(r.data) /\ ~IsNone(r.error)
                            /\ o.kind = "none" => r.error = Str(NoDataReturned)
                            /\ o.kind \in {"raise", "nomethod"} => r.error = Str(o.msg)
                       ELSE r.success /\ ~IsNone(r.data)
              /\ result[c].success <=> \E k \in Eligible : ~Failed(hist.outcome[c][k])

C9_Witness ==
    \E c \in Calls :
        /\ FannedOut(c) /\ Eligible = ProviderClasses
        /\ hist.outcome[c][PolygonKey].kind = "nomethod"
        /\ hist.outcome[c][AlphaVantageKey].kind = "data"
        /\ ~result[c].provider_results[PolygonKey].success
        /\ result[c].success

\* Call c comes back from the fan-out in this step.
Finishes(c) == pc[c] = "waiting" /\ pc'[c] = "done"

\* C10: when at least one provider succeeds the result has success true,
\* providers_used is exactly the providers that returned data (each once, in
\* dispatch order), provider_results has an entry for every eligible
\* provider, and with caching enabled the step that returns the result
\* leaves that result in the cache under the key of the request.
C10_SuccessResult ==
    /\ [](\A c \in Calls :
            (FannedOut(c) /\ \E k \in Eligible : ~Failed(hist.outcome[c][k]))
            => /\ result[c].success
               /\ IsNone(result[c].error)
               /\ result[c].providers_used =
                     SelectSeq(EnabledProviders,
                               LAMBDA k : k \in Eligible /\ ~Failed(hist.outcome[c][k]))
               /\ DOMAIN result[c].provider_results = Eligible)
    /\ [][\A c \in Calls :
            (Finishes(c) /\ result'[c].success /\ enable_caching)
            => LET key == GetCacheKey(request[c].data_type, request[c].kwargs)
               IN key \in DOMAIN cache' /\ cache'[key] = result'[c]]_vars

C10_Witness ==
    \E c \in Calls :
        /\ FannedOut(c) /\ enable_caching /\ Eligible = ProviderClasses
        /\ Failed(hist.outcome[c][PolygonKey])
        /\ ~Failed(hist.outcome[c][AlphaVantageKey])
        /\ result[c].providers_used = <<AlphaVantageKey>>
        /\ cache[GetCacheKey(request[c].data_type, request[c].kwargs)] = result[c]

\* The number of providers whose adapter returned data to call c, and the
\* number of provider results of its return value.
Succeeded(c) == Cardinality({k \in DOMAIN hist.outcome[c] : ~Failed(hist.outcome[c][k])})

Total(c) == Cardinality(DOMAIN result[c].provider_results)

\* C11 as stated: coverage_percentage times the number of provider results
\* equals 100 times the number of successful ones, and it is 0 without any
\* provider result.
C11_CoverageTimesTotal ==
    \A c \in Calls :
        (pc[c] = "done" /\ ~hist.hit[c])
        => IF Total(c) = 0
           THEN result[c].coverage_percentage = FloatZero
           ELSE FloatTimes(result[c].coverage_percentage, Total(c))
                    = FloatOfInt(Succeeded(c) * 100)

\* C11 amended: coverage_percentage is the double (S / T) * 100 for S
\* successful results among T, 0 for T = 0; it is the exact percentage
\* where T divides S * 100 (for 1 of 3 it is 33.33333333333333, which
\* times 3 is not 100); a result kept in the cache keeps its value, and a
\* call served from the cache returns it.
C11_CoverageIsFloatQuotient ==
    /\ [](\A c \in Calls :
            (pc[c] = "done" /\ ~hist.hit[c])
            => /\ result[c].coverage_percentage =
                     IF Total(c) = 0 THEN FloatZero
                     ELSE FloatTimes(FloatDiv(Succeeded(c), Total(c)), 100)
               /\ (Total(c) > 0 /\ (Succeeded(c) * 100) % Total(c) = 0)
                  => result[c].coverage_percentage
                         = FloatOfInt((Succeeded(c) * 100) \div Total(c)))
    /\ [][/\ \A key \in DOMAIN cache \cap DOMAIN cache' :
                cache'[key].coverage_percentage = cache[key].coverage_percentage
          /\ \A c \in Calls :
                (pc'[c] = "done" /\ hist'.hit[c] /\ hist'.fetches # hist.fetches)
                => \E key \in DOMAIN cache :
                      result'[c].coverage_percentage = cache[key].coverage_percentage]_vars

\* One of three providers returned data, and the call was later served
\* again from the cache.
C11_Witness ==
    \E c \in Calls :
        /\ pc[c] = "done" /\ hist.hit[c]
        /\ Cardinality(DOMAIN result[c].provider_results) = 3
        /\ Len(result[c].providers_used) = 1
        /\ FloatTimes(result[c].coverage_percentage, 3) # FloatOfInt(100)

\* C12: a call returns from the fan-out only when the adapter call of every
\* eligible provider has ended, and its provider_results then has one entry
\* per eligible provider; while it waits, a task that settles (failing or
\* not) leaves the other tasks in flight and the settled results as they
\* are, and every task in flight can still end.
C12_GatherWaitsForAll ==
    /\ [](\A c \in Calls :
            /\ FannedOut(c)
               => /\ DOMAIN hist.outcome[c] = Eligible
                  /\ DOMAIN result[c].provider_results = Eligible
            /\ \A k \in Range(EnabledProviders) :
                  (pc[c] = "waiting" /\ k \in pending[c])
                  => ENABLED (\E o \in AdapterOutcomes(request[c], k) : TryProvider(c, k, o)))
    /\ [][\A c \in Calls :
            /\ Finishes(c) => pending[c] = {} /\ DOMAIN hist.outcome[c] = Range(available[c])
            /\ (pc[c] = "waiting" /\ pc'[c] = "waiting")
               => /\ pending'[c] \subseteq pending[c]
                  /\ Cardinality(pending[c] \ pending'[c]) <= 1
                  /\ DOMAIN tasks'[c] = DOMAIN tasks[c] \cup (pending[c] \ pending'[c])
                  /\ \A k \in DOMAIN tasks[c] : tasks'[c][k] = tasks[c][k]]_vars

\* A call returned after one provider's adapter raised and the other's
\* returned data.
C12_Witness ==
    \E c \in Calls :
        /\ FannedOut(c) /\ Eligible = ProviderClasses
        /\ hist.outcome[c][PolygonKey].kind = "raise"
        /\ hist.outcome[c][AlphaVantageKey].kind = "data"
        /\ result[c].provider_results[AlphaVantageKey].success
        /\ ~result[c].provider_results[PolygonKey].success

\* The cache holds a valid entry for request r.
CacheAnswers(r) ==
    LET cache_key == GetCacheKey(r.data_type, r.kwargs)
    IN cache_key \in DOMAIN cache /\ IsCacheValid(cache[cache_key])

\* C13: a call that starts while another call for the same operation and
\* arguments is waiting for its providers, before the cache answers the
\* request, starts a fan-out of its own to every eligible provider; two
\* such calls in flight account for 2N adapter invocations, N each, and a
\* task settling for one call leaves the tasks of the other alone.
C13_ConcurrentCallsNotCoalesced ==
    /\ [](\A c, d \in Callers :
            (c # d /\ pc[c] = "waiting" /\ pc[d] = "waiting" /\ request[c] = request[d])
            => /\ \A k \in Eligible : hist.invoked[c][k] = 1 /\ hist.invoked[d][k] = 1
               /\ Cardinality(Dispatched(c)) + Cardinality(Dispatched(d))
                     = 2 * Cardinality(Eligible)
               /\ pending[c] \cup DOMAIN tasks[c] = Eligible
               /\ pending[d] \cup DOMAIN tasks[d] = Eligible)
    /\ [][\A c \in Callers :
            /\ (pc[c] = "waiting" /\ hist'.fetches # hist.fetches
                  /\ ~CacheAnswers(request[c])
                  /\ \E d \in Callers : request'[d] = request[c] /\ request'[d] # request[d])
               => \E d \in Callers :
                     /\ d # c /\ pc[d] # "waiting" /\ pc'[d] = "waiting"
                     /\ request'[d] = request[c]
                     /\ ~hist'.hit[d]
                     /\ pending'[d] = Eligible
                     /\ Dispatched(d)' = Eligible
            /\ pending'[c] # pending[c]
               => \A d \in Callers \ {c} : pending'[d] = pending[d] /\ tasks'[d] = tasks[d]]_vars

\* Two calls for the same quote in flight together, both of which reached
\* both providers; one has its results in already.
C13_Witness ==
    \E c, d \in Callers :
        /\ c # d /\ pc[c] = "waiting" /\ pc[d] = "waiting"
        /\ request[c] = GetQuote(AAPL) /\ request[d] = GetQuote(AAPL)
        /\ Eligible = ProviderClasses
        /\ Dispatched(c) = ProviderClasses /\ Dispatched(d) = ProviderClasses
        /\ pending[c] = {} /\ pending[d] = ProviderClasses

\* The providers whose adapter returned data to call c, in dispatch order,
\* and what the adapter of provider k returned.
Successful(c) == SelectSeq(available[c], LAMBDA k : ~Failed(hist.outcome[c][k]))

Returned(c, k) == hist.outcome[c][k].data

\* The merge of call c's quotes raised: max() met a timestamp with a time
\* zone and one without.
QuoteMergeRaised(c) ==
    /\ FannedOut(c) /\ request[c].data_type = QuoteType
    /\ \E i \in 1..Len(Successful(c)) :
          ~Comparable(Returned(c, Successful(c)[i]).timestamp,
                      Returned(c, Successful(c)[1]).timestamp)

C15_KeyEqualIffSameRequest ==
    \A c \in Calls :
        (pc[c] # "idle" /\ hist.prev[c].valid)
        => LET r == request[c]
               q == hist.prev[c].request
           IN GetCacheKey(r.data_type, r.kwargs) = GetCacheKey(q.data_type, q.kwargs)
              <=> (r.data_type = q.data_type /\ r.kwargs = q.kwargs)

\* C16: once a call has returned, each provider result holds the payload
\* that provider's adapter returned, no field of it changed by the merge.
C16_ProviderPayloadsUntouched ==
    \A c \in Calls :
        FannedOut(c)
        => \A i \in 1..Len(Successful(c)) :
              result[c].provider_results[Successful(c)[i]].data
                  = Returned(c, Successful(c)[i])

\* The quotes the adapters returned to call c, in dispatch order, and the
\* figures of a field that they report.
ReturnedQuotes(c) == [i \in 1..Len(Successful(c)) |-> Returned(c, Successful(c)[i])]

Reported(c, field) ==
    LET Has(q) == Truthy(q[field])
        having == SelectSeq(ReturnedQuotes(c), Has)
    IN [i \in 1..Len(having) |-> having[i][field].v]

\* C17: when two or more providers succeed for get_quote the merged quote is
\* the payload with the most recent timestamp, and when at least two of them
\* report a price its price is the median of the reported prices.
C17_QuoteLatestWithMedianPrice ==
    \A c \in Calls :
        (FannedOut(c) /\ request[c].data_type = QuoteType /\ Len(Successful(c)) >= 2)
        => /\ \A i \in 1..Len(Successful(c)) :
                 ReturnedQuotes(c)[i].timestamp.v <= result[c].data.timestamp.v
           /\ Len(Reported(c, "price")) >= 2
              => result[c].data.price = Num(Median(Reported(c, "price")))

\* C18: when at least two providers report a volume for get_quote the merged
\* quote's volume is the greatest of the reported volumes.
C18_QuoteMaxVolume ==
    \A c \in Calls :
        (FannedOut(c) /\ request[c].data_type = QuoteType
            /\ Len(Reported(c, "volume")) >= 2)
        => result[c].data.volume = Num(MaxOf(Reported(c, "volume")))

\* The records the adapters returned to call c in list payloads.
ReturnedRecords(c) ==
    UNION { Range(Returned(c, k).items) :
              k \in {x \in Range(Successful(c)) : Returned(c, x).tag = "list"} }

SeriesMerged(c) ==
    /\ FannedOut(c) /\ Len(Successful(c)) >= 1
    /\ request[c].data_type \in {HistoricalType, IntradayType}

\* The merged series of call c has one record for each date that occurs in
\* a returned series, in ascending order of date.
OneRecordPerDateAscending(c) ==
    LET merged == result[c].data.items
    IN /\ {merged[i].date : i \in 1..Len(merged)} = {r.date : r \in ReturnedRecords(c)}
       /\ \A i, j \in 1..Len(merged) : i < j => DateLess(merged[i].date, merged[j].date)

\* C19 as stated: the merged series of get_historical and get_intraday has
\* one record per date, ascending, and the record kept for a date has a
\* non-null adjusted_close when any returned record of that date has one.
C19_KeptRecordHasNonNullAdjustedClose ==
    \A c \in Calls :
        SeriesMerged(c)
        => /\ OneRecordPerDateAscending(c)
           /\ \A i \in 1..Len(result[c].data.items) :
                 (\E r \in ReturnedRecords(c) :
                     r.date = result[c].data.items[i].date /\ ~IsNone(r.adjusted_close))
                 => ~IsNone(result[c].data.items[i].adjusted_close)

\* C19 amended: the merged series of get_historical and get_intraday has
\* one record per date, ascending, and the record kept for a date has a
\* non-null and non-zero adjusted_close when any returned record of that
\* date has one; an adjusted_close of 0 counts as absent.
C19_KeptRecordHasAdjustedClose ==
    \A c \in Calls :
        SeriesMerged(c)
        => /\ OneRecordPerDateAscending(c)
           /\ \A i \in 1..Len(result[c].data.items) :
                 (\E r \in ReturnedRecords(c) :
                     r.date = result[c].data.items[i].date /\ Truthy(r.adjusted_close))
                 => Truthy(result[c].data.items[i].adjusted_close)

\* Two providers returned a record for 2 January, the first without an
\* adjusted close and after a record for 3 January, the second with one; the
\* merged series is 2 January with the adjusted close, then 3 January.
C19_Witness ==
    \E c \in Calls :
        /\ SeriesMerged(c) /\ request[c].data_type = HistoricalType
        /\ Len(Successful(c)) = 2
        /\ Len(Returned(c, Successful(c)[1]).items) = 2
        /\ Returned(c, Successful(c)[1]).items[1].date = January3
        /\ IsNone(Returned(c, Successful(c)[1]).items[2].adjusted_close)
        /\ Len(Returned(c, Successful(c)[2]).items) = 1
        /\ Returned(c, Successful(c)[2]).items[1].date = January2
        /\ Returned(c, Successful(c)[2]).items[1].adjusted_close = Num(7)
        /\ Len(result[c].data.items) = 2
        /\ result[c].data.items[1].date = January2
        /\ result[c].data.items[1].adjusted_close = Num(7)
        /\ result[c].data.items[1].provider = Returned(c, Successful(c)[1]).items[2].provider
        /\ result[c].data.items[2].date = January3

\* The contracts the adapters returned to call c, in provider order and,
\* within one provider, in the order of its list.
ReturnedContracts(c) ==
    LET refs == Concatenate(Successful(c), hist.outcome[c], 1)
    IN [x \in 1..Len(refs) |-> Returned(c, Successful(c)[refs[x][1]]).items[refs[x][2]]]

\* Strike, expiration and option type of a contract, whichever of the two
\* field names its adapter filled.
ContractKey(o) ==
    <<IF IsNone(o.strike) THEN o.strike_price ELSE o.strike,
      IF IsNone(o.expiration) THEN o.expiration_date ELSE o.expiration,
      o.option_type>>

C21_LonePayloadReturned ==
    \A c \in Calls :
        (FannedOut(c) /\ Len(Successful(c)) = 1)
            => result[c].data = Returned(c, Successful(c)[1])

\* The callers through which the batch operation made a call.
BatchCalls == {c \in Callers : pc[c] # "idle"}

\* C22: a batch operation that has returned made one single-symbol call for
\* each different input symbol and no other; it returns a map whose keys
\* are the input symbols, each mapped to the AggregatedResult of the call
\* for that symbol; and that result is what the single-symbol operation
\* builds from its own providers' answers, whatever the other calls met.
C22_BatchMapsEachSymbolToItsResult ==
    pc[BatchCaller] = "done" =>
        LET op == request[BatchCaller].method_name
            symbols == request[BatchCaller].kwargs["symbols"]
            returned == result[BatchCaller]
        IN /\ DOMAIN returned = Range(symbols)
           /\ Cardinality(BatchCalls) = Cardinality(Range(symbols))
           /\ hist.fetches = Cardinality(Range(symbols))
           /\ \A symbol \in Range(symbols) :
                 \E c \in BatchCalls :
                     /\ pc[c] = "done"
                     /\ request[c] = SingleRequest(op, symbol)
                     /\ returned[symbol] = result[c]
                     /\ result[c] =
                           IF available[c] = <<>>
                           THEN AggregatedResult(None, <<>>, FALSE, Str(NoProvidersAvailable),
                                                 NoResults, result[c].timestamp)
                           ELSE FetchOutcome(request[c], available[c], tasks[c],
                                             result[c].timestamp)

\* A batch for two symbols has returned: every provider failed for AAPL,
\* the call for MSFT succeeded.
C22_Witness ==
    /\ pc[BatchCaller] = "done"
    /\ DOMAIN result[BatchCaller] = {AAPL, MSFT}
    /\ ~result[BatchCaller][AAPL].success
    /\ result[BatchCaller][AAPL].error = Str(AllProvidersFailed)
    /\ result[BatchCaller][MSFT].success
    /\ result[BatchCaller][MSFT].data.symbol = MSFT

\* C23: when a provider that is enabled is marked rate limited, the status
\* get_provider_status reports for it is no longer the status it reported
\* before the mark.
C23_StatusReflectsRateLimit ==
    [][\A name \in Range(StatusNames) \cap providers :
           (/\ ~IsProviderRateLimited(rate_limited_providers, name, now)
            /\ IsProviderRateLimited(rate_limited_providers', name, now'))
               => GetProviderStatus(ConfigOf(providers'))[name]
                      # GetProviderStatus(ConfigOf(providers))[name]]_vars

\* C24: close() calls the close of an adapter at most once; when it has
\* ended it has returned without raising, every adapter of the registry was
\* visited, and the close of every adapter that has one was called exactly
\* once, whether or not an earlier adapter's close raised.
C24_CloseReachesEveryAdapter ==
    /\ \A k \in MergeProviders : hist.invoked[CloseCaller][k] <= 1
    /\ pc[CloseCaller] = "done"
       => /\ result[CloseCaller] = None
          /\ DOMAIN tasks[CloseCaller] = providers
          /\ \A k \in providers :
                hist.invoked[CloseCaller][k]
                    = IF tasks[CloseCaller][k] = "absent" THEN 0 ELSE 1

\* close() has ended: the first adapter's close raised, the second adapter
\* has none, the third one's close was called.
C24_Witness ==
    /\ pc[CloseCaller] = "done"
    /\ providers = MergeProviders
    /\ tasks[CloseCaller][AlphaVantageKey] = "raised"
    /\ tasks[CloseCaller][FinnhubKey] = "absent"
    /\ tasks[CloseCaller][PolygonKey] = "returned"
    /\ hist.invoked[CloseCaller][PolygonKey] = 1

\* Every cache entry is a successful result that names its providers.
CacheHoldsSuccesses ==
    \A key \in DOMAIN cache :
        cache[key].success /\ cache[key].providers_used # <<>>

\* C25 as stated: every cache entry is a successful result with providers,
\* and after a total failure has been returned for a request the cache does
\* not answer that request, so that the next call for it goes to the
\* providers.
C25_FailureLeavesKeyUnanswered ==
    /\ CacheHoldsSuccesses
    /\ (hist.last.valid /\ ~hist.last.result.success)
           => ~CacheAnswers(hist.last.request)

\* C25 amended: every cache entry is a successful result with providers,
\* and the return of a total failure leaves the cache as it was, so that
\* the cache answers the failed request afterwards only if it did before
\* (another call for the same key succeeded while this one was waiting).
C25_FailuresNeverCached ==
    /\ [](CacheHoldsSuccesses)
    /\ [][\A c \in Callers :
             (pc[c] # "done" /\ pc'[c] = "done" /\ ~result'[c].success)
                 => cache' = cache]_vars

\* With caching enabled a call has returned 'All providers failed to return
\* data' while the cache answers its request: the other caller's call for
\* the same request succeeded in the meantime.
C25_Witness ==
    \E c \in Callers :
        /\ enable_caching
        /\ pc[c] = "done" /\ ~hist.hit[c]
        /\ result[c].error = Str(AllProvidersFailed)
        /\ hist.last.result = result[c]
        /\ CacheAnswers(request[c])

\* The cache key of the request call c serves.
KeyOf(c) == GetCacheKey(request[c].data_type, request[c].kwargs)

\* C26: whatever the callers' steps and clear_cache do in between, an entry
\* appears or changes under a key only in the step in which a call for that
\* key returns from its fan-out, and it is then the whole result that call
\* returns, built from the settled answers of all its providers; entries
\* disappear only by clear_cache; and a call that returns a success with
\* caching enabled leaves its result under its key, so that of two
\* overlapping calls for one key the one that returns last leaves the entry.
C26_EntriesWrittenWholeByFinishedFanOut ==
    [][/\ \A key \in DOMAIN cache' :
             (key \notin DOMAIN cache \/ cache'[key] # cache[key])
                 => \E c \in Callers :
                        /\ Finishes(c) /\ key = KeyOf(c)
                        /\ pending[c] = {}
                        /\ DOMAIN tasks[c] = Range(available[c])
                        /\ result'[c] = FetchOutcome(request[c], available[c], tasks[c], now)
                        /\ result'[c].success
                        /\ cache'[key] = result'[c]
       /\ DOMAIN cache \subseteq DOMAIN cache' \/ cache' = EmptyMap
       /\ \A c \in Callers :
             (Finishes(c) /\ result'[c].success /\ enable_caching)
                 => (KeyOf(c) \in DOMAIN cache' /\ cache'[KeyOf(c)] = result'[c])]_vars

\* Two calls for one request have both been through a fan-out with caching
\* enabled, so they overlapped; both succeeded with different results, and
\* the entry is the result of the second caller, not that of the first.
C26_Witness ==
    /\ enable_caching /\ cache_ttl = 1
    /\ \A c \in Callers : pc[c] = "done" /\ ~hist.hit[c] /\ result[c].success
    /\ request[1] = request[2]
    /\ result[1] # result[2]
    /\ KeyOf(2) \in DOMAIN cache
    /\ cache[KeyOf(2)] = result[2]

\* C27: provided every adapter call ends, a call that waits for its
\* providers returns; while it waits nothing has been delivered; and it
\* returns only when every task has settled, with the result built from all
\* the settled answers: a success naming the providers that answered, or
\* the failure 'All providers failed to return data'.
C27_EveryCallReturnsAfterAllSettled ==
    /\ \A c \in Calls : (pc[c] = "waiting") ~> (pc[c] = "done")
    /\ [](\A c \in Calls : pc[c] = "waiting" => IsNone(result[c]))
    /\ [][\A c \in Calls :
             Finishes(c)
                 => /\ pending[c] = {}
                    /\ DOMAIN tasks[c] = Range(available[c])
                    /\ result'[c] = FetchOutcome(request[c], available[c], tasks[c], now)
                    /\ \/ result'[c].success /\ ~IsNone(result'[c].data)
                       \/ /\ ~result'[c].success /\ IsNone(result'[c].data)
                          /\ result'[c].error = Str(AllProvidersFailed)]_vars

\* A call has returned after both providers' tasks settled, the first to
\* settle with data and the other with an error.
C27_Witness ==
    \E c \in Calls :
        /\ FannedOut(c) /\ Eligible = ProviderClasses
        /\ hist.outcome[c][PolygonKey].kind = "data"
        /\ hist.outcome[c][AlphaVantageKey].kind = "raise"
        /\ result[c].success
        /\ result[c].providers_used = <<PolygonKey>>

\* C28: a step of a public operation changes the health map only when an
\* adapter call ends with an exception whose text holds a rate-limit
\* indicator, and then by writing that adapter's record with the current
\* time; an adapter call that ends with data, with None or with any other
\* exception leaves the map as it was, so the record of a flagged provider
\* survives its later successful answer; a record leaves the map only in a
\* call of _is_provider_rate_limited for its name, after the cooldown.
C28_HealthMapWrittenOnlyOnRateLimit ==
    [][/\ \A c \in Calls : \A k \in pending[c] \ pending'[c] :
             LET o == hist'.outcome[c][k]
             IN IF o.kind \in {"raise", "nomethod"} /\ IsRateLimitError(o.msg)
                THEN rate_limited_providers'
                         = MarkProviderRateLimited(rate_limited_providers,
                                                   Lower(ProviderName(k)), now)
                ELSE rate_limited_providers' = rate_limited_providers
       /\ (pc' # pc /\ pending' = pending)
              => rate_limited_providers' = rate_limited_providers
       /\ \A n \in DOMAIN rate_limited_providers \ DOMAIN rate_limited_providers' :
             /\ pc' = pc /\ pending' = pending
             /\ checked'.name = n
             /\ checked'.had /\ ~checked'.left
             /\ checked'.elapsed > CooldownSeconds]_vars

\* A provider that was flagged when the call started has answered the call
\* with data, and its record is still in the map.
C28_Witness ==
    \E c \in Calls : \E k \in ProviderClasses :
        /\ pc[c] = "done"
        /\ k \in DOMAIN hist.outcome[c]
        /\ hist.outcome[c][k].kind = "data"
        /\ k \in hist.flagged[c]
        /\ Lower(ProviderName(k)) \in DOMAIN rate_limited_providers

\* x > 0 for a float that is zero or positive
FloatPositive(x) == x.sig[1] > 0

\* C29: every result a call has returned is consistent.  A success has no
\* error, names at least one provider in providers_used, each of them a key
\* of provider_results, and has a coverage above zero; a failure has no
\* data, an empty providers_used, an error text and a coverage of zero.
C29_ReturnedResultConsistent ==
    \A c \in Calls :
        pc[c] = "done"
            => LET res == result[c]
               IN IF res.success
                  THEN /\ IsNone(res.error)
                       /\ res.providers_used # <<>>
                       /\ Range(res.providers_used) \subseteq DOMAIN res.provider_results
                       /\ FloatPositive(res.coverage_percentage)
                  ELSE /\ IsNone(res.data)
                       /\ res.providers_used = <<>>
                       /\ res.error.tag = "str" /\ res.error.chars # <<>>
                       /\ res.coverage_percentage = FloatZero

\* A call has returned the failure of a fan-out in which both providers
\* failed, after an earlier call had returned a success.
C29_Witness ==
    \E c \in Calls :
        /\ FannedOut(c)
        /\ ~result[c].success
        /\ DOMAIN result[c].provider_results = ProviderClasses
        /\ hist.prev[c].valid
        /\ hist.prev[c].result.success

\* C30: in every result a call has returned, the ProviderResult under key k
\* of provider_results names k as its provider, and every health record is
\* written under the registry key of the provider it is about.
C30_ResultsNamedByTheirKey ==
    /\ \A c \in Calls :
          pc[c] = "done"
              => \A k \in DOMAIN result[c].provider_results :
                    result[c].provider_results[k].provider = k
    /\ DOMAIN rate_limited_providers \subseteq ProviderClasses


====
